---- MODULE Spec2Model ----
(***************************************************************************)
(* Model of the KMQ game session engine: src/structures/session.ts holds   *)
(* the Session base class (lines 1-1043) and GameSession (lines 1045-2447).*)
(* All game logic runs on one event loop; every `await` on a timer, a      *)
(* database call or a network call is a suspension point at which other    *)
(* handlers may run.  Each suspended handler is a record in the bag `tasks`; *)
(* every action runs one handler from one suspension point to the next.    *)
(***************************************************************************)
EXTENDS Integers, Sequences, FiniteSets, Bags, TLC

(* ---------------- bounds of the model ---------------- *)
MaxRounds == 3
MaxEvents == 2
MaxTimerEvents == 3
MaxUpdates == 4
MaxCommands == 3
PoolSize == 1
StartLives == 1
ScenarioLives == 5
ScenarioPool == 3
OverlapPool == 2
OverlapEvents == 3
OverlapRounds == 4

(* ---------------- program constants ---------------- *)
BOOKMARK_MESSAGE_SIZE == 10

Users == {"A", "B"}
NoRound == 0
NoSession == 0
NoGuesser == [userID |-> "none", streak |-> 0]
GameTypes == {"classic", "elimination"}

VARIABLES
    gameType,          \* GameSession.gameType
    guessTimeoutSet,   \* guildPreference.isGuessTimeoutSet()
    seekBeginning,     \* gameOptions.seekType === SeekType.BEGINNING
    durationSet,       \* guildPreference.isDurationSet()
    durationElapsed,   \* getRemainingDuration() < 0
    finished,          \* Session.finished
    sessionInitialized,\* Session.sessionInitialized
    registered,        \* guildID in State.gameSessions
    connection,        \* Session.connection is set
    voiceJoined,       \* State.client.voiceConnections has the guild
    startingLives,     \* EliminationScoreboard.startingLives
    round,             \* Session.round: id of the current round, NoRound for null
    rFinished,         \* round.finished, by round id
    rCorrect,          \* round.correctGuessers, by round id
    rMsg,              \* round.roundMessageID is set, by round id
    roundsPlayed,      \* Session.roundsPlayed
    correctGuesses,    \* GameSession.correctGuesses
    lastGuesser,       \* GameSession.lastGuesser
    score,             \* scoreboard: half points (classic) or lives (elimination)
    songStats,         \* number of incrementSongStats calls for the round's song
    songMessageIDs,    \* Session.songMessageIDs (rounds in the bookmark ring)
    bookmarked,        \* Session.bookmarkedSongs is non-empty
    uniquePlayed,      \* songSelector unique-song cursor
    endListeners,      \* connection listeners of "end": play id, 0 for the no-op
    errorListeners,    \* connection listeners of "error"
    playing,           \* play invocation whose stream is live, 0 for none
    nPlays,            \* number of connection.play calls
    timers,            \* armed setTimeout handles
    timerRound,        \* round that was current when the handle was armed
    guessTimeoutFunc,  \* Session.guessTimeoutFunc
    tasks,             \* bag of the suspended handlers
    nEvents,           \* guesses, stream events, timer firings, outside calls
    wins,              \* by round id: users given a streak update for its guessers
    timerEnded,        \* <<round armed for, round ended>> of fired timers
    errorNotifs,       \* by play id: stream-error messages sent
    restarts,          \* by play id: startRound calls of the error handler
    statsCommits,      \* player statistics commits issued
    registryRemovals,  \* sessions deleted from State.gameSessions by endSession
    voiceReleases,     \* voice channel leaves
    bookmarkFlushes,   \* bookmarked songs deliveries
    announcements,     \* end-of-game messages
    lost,              \* by player: scoreboard updates the player did not win
    songsLoaded,       \* songSelector.getSongs() is not null
    nUpdates,          \* scoreboard updates applied directly
    timerFired,        \* guess timeouts that fired on an active round
    timerRestarts,     \* startRound calls of the guess-timeout callback
    endCalls,          \* calls of endSession
    errEmits,          \* by play id: error events the connection emitted
    sessions,          \* play command: the GameSession objects created for the guild
    gameSessions,      \* play command: State.gameSessions[guildID], 0 when absent
    commands,          \* play command: the suspended commands
    nCommands,         \* play command: commands received
    supersedes,        \* play command: pairs of a session the guild had and the one registered over it
    originalPlayers,   \* players on the scoreboard when the game started
    firstPlace,        \* Scoreboard.firstPlace, what getWinners returns
    poolSize,          \* songSelector: number of songs of the pool
    faults,            \* failures the environment produces from now on
    startReturns,      \* startRound calls that returned false on a fatal path, with the state at the return
    endRejects,        \* endSession calls whose promise was rejected
    multipleChoice,    \* guildPreference.isMultipleChoiceMode()
    rSong,             \* round.song, by round id: the song of the pool that was drawn
    rWrong,            \* round.incorrectMCGuessers, by round id
    rButtons,          \* the answer buttons of the round were sent, by round id
    staleCredits,      \* correct guesses credited in a round through an interaction of another round
    ignored,           \* guess contexts for which guessSong returned at its gate
    ends,              \* history: the calls of endRound that found a round, in order
    endEmits,          \* history: the end events emitted during each play invocation
    endRuns,           \* history: how often the end listener of each play invocation ran
    endRestarts,       \* history: the startRound calls of the end listener of each play invocation
    durationEnds,      \* history: the endSession calls of Session.endRound at an elapsed duration
    noops,             \* history: the calls of endRound that found no round attached
    blocked,           \* history: the right answers checkGuess refused from members who had answered wrong
    joining,           \* setPlayerInVC calls suspended before addPlayer: [userID, lives]
    owner,             \* session.owner: a member id, or undefined
    voiceMembers,      \* getCurrentVoiceMembers: the non-bot members in the voice channel
    playerIDs,         \* scoreboard.getPlayerIDs(), in the order the players were added
    music,             \* the session is a MusicSession
    skippers,          \* round.skippers of the listening rounds, by round id
    correctGuessers,   \* guessResult.correctGuessers: [id, pointsAwarded] in the order of the guesses, points in tenths
    playerRoundResults, \* round.playerRoundResults: [id, pointsEarned] in twentieths of a point
    multiGuess,        \* guildPreference.gameOptions.multiGuessType is ON
    skipEnds,          \* history: the rounds ended by skipSong, with the majority its vote had counted
    songCount,         \* getSongCount().count: the size of the song pool
    baseExpReward,     \* round.baseExpReward in hundredths of an EXP, 0 before calculateBaseExp
    playerStats,       \* the player_stats row of the player: [exp, level]
    expCommits,        \* incrementPlayerExp calls of the ending sessions, by guild: [pc, gain, exp, level]
    statsBefore        \* history: the player_stats row before the sessions ended

vars == <<gameType, guessTimeoutSet, seekBeginning, durationSet, durationElapsed,
          finished, sessionInitialized, registered, connection, voiceJoined,
          startingLives, round, rFinished,
          rCorrect, rMsg, roundsPlayed, correctGuesses, lastGuesser, score,
          songStats, songMessageIDs, bookmarked, uniquePlayed, endListeners,
          errorListeners, playing, nPlays, timers,
          timerRound, guessTimeoutFunc, tasks, nEvents, wins,
          timerEnded, errorNotifs, restarts, statsCommits, registryRemovals,
          voiceReleases, bookmarkFlushes, announcements, lost,
          songsLoaded,
          nUpdates,
          timerFired,
          timerRestarts,
          endCalls,
          errEmits,
          sessions,
          gameSessions,
          commands,
          nCommands,
          supersedes,
          originalPlayers,
          firstPlace,
          poolSize,
          faults,
          startReturns,
          endRejects,
          multipleChoice,
          rSong,
          rWrong,
          rButtons,
          staleCredits,
          ignored,
          ends,
          endEmits,
          endRuns,
          endRestarts,
          durationEnds,
          noops,
          blocked,
          joining,
          owner,
          voiceMembers,
          playerIDs,
          music,
          skippers,
          correctGuessers,
          playerRoundResults,
          multiGuess,
          skipEnds,
          songCount,
          baseExpReward,
          playerStats,
          expCommits,
          statsBefore>>

(* A suspended handler: kind is the handler, pc its suspension point, round *)
(* the round captured by the handler, er the round captured by endRound,   *)
(* guessers the guessResult.correctGuessers read by endRound, res the      *)
(* guessResult, play the play invocation of a stream listener, hadRound    *)
(* whether a round was active when the handler began, delta what the       *)
(* handler has added to roundsPlayed, late whether the session was         *)
(* finished when the handler began, fatal the fatal path of the startRound *)
(* call that awaits the handler, msgs the error messages that call sent,   *)
(* user the member whose interaction the handler serves.                   *)
Blank ==
    [kind |-> "none", pc |-> "done", round |-> 0, er |-> 0, res |-> "none",
     guessers |-> <<>>, play |-> 0, hadRound |-> FALSE, delta |-> 0,
     late |-> FALSE, fatal |-> "none", msgs |-> 0, user |-> "none"]

(* The whole state as one record, so that the sequential code of a handler *)
(* is a composition of functions from state to state; cur is the handler  *)
(* that is running.                                                        *)
Cur ==
    [gameType |-> gameType, guessTimeoutSet |-> guessTimeoutSet,
     seekBeginning |-> seekBeginning, durationSet |-> durationSet,
     durationElapsed |-> durationElapsed, finished |-> finished,
     sessionInitialized |-> sessionInitialized, registered |-> registered,
     connection |-> connection, voiceJoined |-> voiceJoined,
     startingLives |-> startingLives, round |-> round, rFinished |-> rFinished,
     rCorrect |-> rCorrect, rMsg |-> rMsg, roundsPlayed |-> roundsPlayed,
     correctGuesses |-> correctGuesses, lastGuesser |-> lastGuesser,
     score |-> score, songStats |-> songStats,
     songMessageIDs |-> songMessageIDs, bookmarked |-> bookmarked,
     uniquePlayed |-> uniquePlayed, endListeners |-> endListeners,
     errorListeners |-> errorListeners, playing |-> playing, nPlays |-> nPlays,
     timers |-> timers,
     timerRound |-> timerRound, guessTimeoutFunc |-> guessTimeoutFunc,
     tasks |-> tasks, nEvents |-> nEvents,
     wins |-> wins, timerEnded |-> timerEnded, errorNotifs |-> errorNotifs,
     restarts |-> restarts, statsCommits |-> statsCommits,
     registryRemovals |-> registryRemovals, voiceReleases |-> voiceReleases,
     bookmarkFlushes |-> bookmarkFlushes, announcements |-> announcements,
     lost |-> lost,
     songsLoaded |-> songsLoaded,
     nUpdates |-> nUpdates,
     timerFired |-> timerFired,
     timerRestarts |-> timerRestarts,
     cur |-> Blank,
     endCalls |-> endCalls,
     errEmits |-> errEmits,
     sessions |-> sessions,
     gameSessions |-> gameSessions,
     commands |-> commands,
     nCommands |-> nCommands,
     supersedes |-> supersedes,
     originalPlayers |-> originalPlayers,
     firstPlace |-> firstPlace,
     poolSize |-> poolSize,
     faults |-> faults,
     startReturns |-> startReturns,
     endRejects |-> endRejects,
     multipleChoice |-> multipleChoice,
     rSong |-> rSong,
     rWrong |-> rWrong,
     rButtons |-> rButtons,
     staleCredits |-> staleCredits,
     ignored |-> ignored,
     ends |-> ends,
     endEmits |-> endEmits,
     endRuns |-> endRuns,
     endRestarts |-> endRestarts,
     durationEnds |-> durationEnds,
     noops |-> noops,
     blocked |-> blocked,
     joining |-> joining,
     owner |-> owner,
     voiceMembers |-> voiceMembers,
     playerIDs |-> playerIDs,
     music |-> music,
     skippers |-> skippers,
     correctGuessers |-> correctGuessers,
     playerRoundResults |-> playerRoundResults,
     multiGuess |-> multiGuess,
     skipEnds |-> skipEnds,
     songCount |-> songCount,
     baseExpReward |-> baseExpReward,
     playerStats |-> playerStats,
     expCommits |-> expCommits,
     statsBefore |-> statsBefore]

Set(s) ==
    /\ gameType' = s.gameType
    /\ guessTimeoutSet' = s.guessTimeoutSet
    /\ seekBeginning' = s.seekBeginning
    /\ durationSet' = s.durationSet
    /\ durationElapsed' = s.durationElapsed
    /\ finished' = s.finished
    /\ sessionInitialized' = s.sessionInitialized
    /\ registered' = s.registered
    /\ connection' = s.connection
    /\ voiceJoined' = s.voiceJoined
    /\ startingLives' = s.startingLives
    /\ round' = s.round
    /\ rFinished' = s.rFinished
    /\ rCorrect' = s.rCorrect
    /\ rMsg' = s.rMsg
    /\ roundsPlayed' = s.roundsPlayed
    /\ correctGuesses' = s.correctGuesses
    /\ lastGuesser' = s.lastGuesser
    /\ score' = s.score
    /\ songStats' = s.songStats
    /\ songMessageIDs' = s.songMessageIDs
    /\ bookmarked' = s.bookmarked
    /\ uniquePlayed' = s.uniquePlayed
    /\ endListeners' = s.endListeners
    /\ errorListeners' = s.errorListeners
    /\ playing' = s.playing
    /\ nPlays' = s.nPlays
    /\ timers' = s.timers
    /\ timerRound' = s.timerRound
    /\ guessTimeoutFunc' = s.guessTimeoutFunc
    /\ tasks' = s.tasks
    /\ nEvents' = s.nEvents
    /\ wins' = s.wins
    /\ timerEnded' = s.timerEnded
    /\ errorNotifs' = s.errorNotifs
    /\ restarts' = s.restarts
    /\ statsCommits' = s.statsCommits
    /\ registryRemovals' = s.registryRemovals
    /\ voiceReleases' = s.voiceReleases
    /\ bookmarkFlushes' = s.bookmarkFlushes
    /\ announcements' = s.announcements
    /\ lost' = s.lost
    /\ songsLoaded' = s.songsLoaded
    /\ nUpdates' = s.nUpdates
    /\ timerFired' = s.timerFired
    /\ timerRestarts' = s.timerRestarts
    /\ endCalls' = s.endCalls
    /\ errEmits' = s.errEmits
    /\ sessions' = s.sessions
    /\ gameSessions' = s.gameSessions
    /\ commands' = s.commands
    /\ nCommands' = s.nCommands
    /\ supersedes' = s.supersedes
    /\ originalPlayers' = s.originalPlayers
    /\ firstPlace' = s.firstPlace
    /\ poolSize' = s.poolSize
    /\ faults' = s.faults
    /\ startReturns' = s.startReturns
    /\ endRejects' = s.endRejects
    /\ multipleChoice' = s.multipleChoice
    /\ rSong' = s.rSong
    /\ rWrong' = s.rWrong
    /\ rButtons' = s.rButtons
    /\ staleCredits' = s.staleCredits
    /\ ignored' = s.ignored
    /\ ends' = s.ends
    /\ endEmits' = s.endEmits
    /\ endRuns' = s.endRuns
    /\ endRestarts' = s.endRestarts
    /\ durationEnds' = s.durationEnds
    /\ noops' = s.noops
    /\ blocked' = s.blocked
    /\ joining' = s.joining
    /\ owner' = s.owner
    /\ voiceMembers' = s.voiceMembers
    /\ playerIDs' = s.playerIDs
    /\ music' = s.music
    /\ skippers' = s.skippers
    /\ correctGuessers' = s.correctGuessers
    /\ playerRoundResults' = s.playerRoundResults
    /\ multiGuess' = s.multiGuess
    /\ skipEnds' = s.skipEnds
    /\ songCount' = s.songCount
    /\ baseExpReward' = s.baseExpReward
    /\ playerStats' = s.playerStats
    /\ expCommits' = s.expCommits
    /\ statsBefore' = s.statsBefore

\* a new suspended handler
Spawn(s, t) == [s EXCEPT !.tasks = @ (+) SetToBag({t})]

\* the running handler suspends, or is dropped when it has returned
Park(s) == IF s.cur.pc = "done" THEN s ELSE Spawn(s, s.cur)

\* the suspended handler t runs again
Resume(t) == [Cur EXCEPT !.tasks = @ (-) SetToBag({t}), !.cur = t]

SetPc(s, p) == [s EXCEPT !.cur.pc = p]

Max(a, b) == IF a >= b THEN a ELSE b

(* ---------------- elimination scoreboard ---------------- *)

\* a decrement without the floor at 0
decrementLivesUnfloored(l) == l - 1

\* EliminationPlayer.decrementLives
decrementLives(l) == IF l > 0 THEN l - 1 ELSE l

\* EliminationPlayer.isEliminated
isEliminated(l) == l = 0

\* EliminationScoreboard.updateScoreboard: everybody but the winner loses a life
updateScoreboard(sc, winnerID) ==
    [p \in DOMAIN sc |-> IF p # winnerID THEN decrementLives(sc[p]) ELSE sc[p]]

RECURSIVE firstPlaceOf(_, _, _, _)
\* EliminationScoreboard.updateScoreboard: the pass that collects firstPlace,
\* the players not yet visited being todo
firstPlaceOf(sc, todo, maxLives, fp) ==
    IF todo = {} THEN fp
    ELSE LET p == CHOOSE x \in todo : TRUE IN
         IF sc[p] = maxLives
         THEN firstPlaceOf(sc, todo \ {p}, maxLives, fp \cup {p})
         ELSE IF sc[p] > maxLives
              THEN firstPlaceOf(sc, todo \ {p}, sc[p], {p})
              ELSE firstPlaceOf(sc, todo \ {p}, maxLives, fp)

\* EliminationScoreboard.decrementAllLives
decrementAllLives(sc) == [p \in DOMAIN sc |-> decrementLives(sc[p])]

\* a gameFinished without the last-player-standing condition
gameFinishedAllEliminated(sc) == \A p \in DOMAIN sc : isEliminated(sc[p])

\* EliminationScoreboard.gameFinished
gameFinished(sc) ==
    LET allEliminated == \A p \in DOMAIN sc : isEliminated(sc[p])
        oneLeft == /\ Cardinality(DOMAIN sc) > 1
                   /\ Cardinality({p \in DOMAIN sc : ~isEliminated(sc[p])}) = 1
    IN allEliminated \/ oneLeft

\* Scoreboard.update of the session's scoreboard for the ordered guessers:
\* classic adds pointsEarned (in half points: 2 for the first guesser, 1 for
\* every later one), elimination takes a life from everybody but the winner
ScoreboardUpdate(s, guessers) ==
    LET ws == {guessers[k] : k \in 1..Len(guessers)} IN
    IF s.gameType = "elimination"
    THEN [s EXCEPT !.score = updateScoreboard(@, guessers[1]),
                   !.firstPlace = firstPlaceOf(updateScoreboard(s.score, guessers[1]),
                                               DOMAIN s.score, -1, @),
                   !.lost = [p \in DOMAIN @ |->
                               IF p = guessers[1] THEN @[p] ELSE @[p] + 1]]
    ELSE [s EXCEPT !.score = [p \in DOMAIN @ |->
                      IF p \notin ws THEN @[p]
                      ELSE IF p = guessers[1] THEN @[p] + 2 ELSE @[p] + 1]]

\* GameSession.endRound, the branch of a round nobody won
NoCreditUpdate(s) ==
    IF s.gameType = "elimination"
    THEN [s EXCEPT !.lastGuesser = NoGuesser,
                   !.score = decrementAllLives(@),
                   !.lost = [p \in DOMAIN @ |-> @[p] + 1]]
    ELSE [s EXCEPT !.lastGuesser = NoGuesser]

\* a session that is over when the pool of unique songs is exhausted
SessionFinishedOnExhaustion(s) ==
    (s.gameType = "elimination" /\ gameFinished(s.score))
        \/ s.uniquePlayed = s.poolSize

\* this.scoreboard.gameFinished(this.guildPreference) of the session
SessionGameFinished(s) ==
    IF s.gameType = "elimination" THEN gameFinished(s.score) ELSE FALSE

(* ---------------- guess timeout ---------------- *)

\* Session.stopGuessTimeout: clearTimeout of the stored handle
stopGuessTimeout(s) == [s EXCEPT !.timers = @ \ {s.guessTimeoutFunc}]

\* Session.startGuessTimeout, called by playSong for the round it captured:
\* arms a timer and overwrites the stored handle
startGuessTimeout(s) ==
    IF ~s.guessTimeoutSet THEN s
    ELSE LET id == Len(s.timerRound) + 1 IN
         [s EXCEPT !.timers = @ \cup {id},
                   !.timerRound = Append(@, s.cur.round),
                   !.guessTimeoutFunc = id]

(* ---------------- endSession, first part ---------------- *)

\* endSession without the check of the terminal flag
EndSessionCallUnguarded(s) ==
    Spawn([s EXCEPT !.endCalls = @ + 1, !.finished = TRUE,
                    !.statsCommits = @ + 1],
          [Blank EXCEPT !.kind = "endSession", !.pc = "es_commit"])

\* GameSession.endSession up to its first await: the check-and-set of
\* finished, then the player statistics commit is issued
EndSessionCall(s) ==
    LET s1 == [s EXCEPT !.endCalls = @ + 1] IN
    IF s1.finished THEN s1
    ELSE Spawn([s1 EXCEPT !.finished = TRUE, !.statsCommits = @ + 1],
               [Blank EXCEPT !.kind = "endSession", !.pc = "es_commit"])

(* ---------------- the fatal paths of startRound ---------------- *)

\* the failures startRound can meet: reloadSongs rejects, queryRandomSong
\* finds no song, the voice channel is unresolvable or has no member,
\* ensureVoiceConnection rejects
StartFaults == {"reload", "pool", "channel", "voice"}

\* the writes of endSession that can be rejected: the statistics of a player,
\* the game_sessions row, the statistics of a song, the bookmarked_songs
\* rows, the games_played counter of the guild
PersistFaults == {"playerStats", "gameSessions", "songStats", "bookmarks", "guild"}

\* Session.startRound: return false on a fatal path
ReturnFalse(s) ==
    [s EXCEPT !.startReturns =
                 @ \cup {[path |-> s.cur.fatal, msgs |-> s.cur.msgs,
                          finished |-> s.finished, registered |-> s.registered,
                          round |-> s.round # NoRound]},
              !.cur = Blank]

\* what the caller of endSession does when endSession has returned: nothing
\* after a call that was not awaited, and on a fatal path of startRound the
\* connectivity error message (voice) or return false
AfterEndSession(s) ==
    CASE s.cur.fatal = "none" -> [s EXCEPT !.cur = Blank]
      [] s.cur.fatal = "voice" ->
           [s EXCEPT !.cur.kind = "start", !.cur.pc = "sr_vcmsg",
                     !.cur.msgs = @ + 1]
      [] OTHER -> ReturnFalse(s)

\* await this.endSession() on a fatal path of startRound: the call runs
\* GameSession.endSession, which returns at once for a finished session
FatalEnd(s, path) ==
    LET s0 == [s EXCEPT !.cur.fatal = path] IN
    IF s0.finished THEN AfterEndSession([s0 EXCEPT !.endCalls = @ + 1])
    ELSE LET e == [Blank EXCEPT !.kind = "endSession", !.pc = "es_commit"]
             s1 == EndSessionCall(s0)
         IN [s1 EXCEPT !.tasks = (@ (-) SetToBag({e}))
                                   (+) SetToBag({[e EXCEPT !.fatal = path,
                                                           !.msgs = s0.cur.msgs]}),
                       !.cur = Blank]

\* endSession throws at a rejected write: its promise is rejected, and so
\* is that of a startRound that awaits it
Reject(s) == [s EXCEPT !.endRejects = @ + 1, !.cur = Blank]

(* ---------------- endRound ---------------- *)

\* a ring update that never drops the oldest entry
PushRingUnbounded(ring, r, hasMsg) == IF hasMsg THEN Append(ring, r) ELSE ring

\* the bookmark ring update shared by Session.endRound and updateBookmarkSongList
PushRing(ring, r, hasMsg) ==
    LET ring1 == IF Len(ring) = BOOKMARK_MESSAGE_SIZE THEN Tail(ring) ELSE ring
    IN IF hasMsg THEN Append(ring1, r) ELSE ring1

\* Session.updateBookmarkSongList
updateBookmarkSongList(s) ==
    IF s.round = NoRound THEN s
    ELSE [s EXCEPT !.songMessageIDs = PushRing(@, s.round, s.rMsg[s.round])]

\* Session.endRound
SessionEndRound(s) ==
    IF s.round = NoRound THEN s
    ELSE LET r == s.round
             s1 == stopGuessTimeout(
                     [s EXCEPT !.round = NoRound,
                               !.songMessageIDs = PushRing(@, r, s.rMsg[r])])
         IN IF s1.finished THEN s1
            ELSE LET s2 == [s1 EXCEPT !.roundsPlayed = @ + 1]
                 IN IF s2.durationSet /\ s2.durationElapsed
                    THEN EndSessionCall([s2 EXCEPT !.durationEnds = @ + 1])
                    ELSE s2

\* a handler that returns without calling startRound
SpawnStartNever(s) == [s EXCEPT !.cur = Blank]

\* this.startRound(messageContext) of a handler of a started session: the
\* call suspends in delay(SONG_START_DELAY) before it looks at the session,
\* and the handler returns
SpawnStart(s) ==
    LET t == s.cur IN
    Spawn([s EXCEPT !.cur = Blank,
                    !.restarts = IF t.kind = "error"
                                 THEN [@ EXCEPT ![t.play] = @ + 1] ELSE @,
                    !.endRestarts = IF t.kind = "end"
                                    THEN [@ EXCEPT ![t.play] = @ + 1] ELSE @,
                    !.timerRestarts = IF t.kind = "timer" THEN @ + 1 ELSE @],
          [Blank EXCEPT !.kind = "start", !.pc = "sr_delay"])

\* a timeout callback that ends the round and starts none
TimeoutNoRestart(s) == [s EXCEPT !.cur = Blank]

\* the callback of startGuessTimeout when its endRound has returned
TimeoutContinue(s) == SpawnStart(s)

\* what the caller of endRound does when endRound has returned
Continue(s) ==
    LET t == s.cur IN
    CASE t.kind = "guess" ->
           \* guessSong: correctGuesses++, stopGuessTimeout, await the
           \* songs_guessed increment
           SetPc(stopGuessTimeout([s EXCEPT !.correctGuesses = @ + 1]), "g_db")
      [] t.kind = "timer" ->
           TimeoutContinue(s)
      [] t.kind = "end" ->
           SpawnStart(s)
      [] t.kind = "wrong" ->
           \* guessSong, every voice member has guessed wrong: startRound
           SpawnStart(s)
      [] t.kind = "error" ->
           \* errorRestartRound: await sendErrorMessage
           SetPc([s EXCEPT !.errorNotifs[t.play] = @ + 1], "err_msg")
      [] t.kind = "endSession" ->
           \* Session.endSession: leave voice, deliver the bookmarks, await
           \* the guild counter increment
           SetPc([s EXCEPT !.voiceReleases = IF s.voiceJoined THEN @ + 1 ELSE @,
                           !.voiceJoined = FALSE,
                           !.playing = 0,
                           !.bookmarkFlushes = IF s.bookmarked THEN @ + 1 ELSE @],
                 "es_guild")
      [] OTHER -> s

\* GameSession.endRound from updateBookmarkSongList to its return
EndRoundTail(s) ==
    LET before == s.roundsPlayed
        s1 == SessionEndRound(updateBookmarkSongList(s))
        s2 == [s1 EXCEPT !.cur.delta = @ + (s1.roundsPlayed - before),
                         !.cur.er = 0]
        s3 == IF SessionGameFinished(s2) THEN EndSessionCall(s2) ELSE s2
    IN Continue(s3)

\* an endRound that resets the streak before it looks for the round
EndRoundNoopResets(s) ==
    Continue([s EXCEPT !.cur.round = 0, !.noops = @ + 1,
                       !.lastGuesser = NoGuesser])

\* GameSession.endRound when no round is attached: it returns
EndRoundNoop(s) == Continue([s EXCEPT !.cur.round = 0, !.noops = @ + 1])

\* GameSession.endRound from its entry to its first await (or to its return)
EndRoundEntry(s, res, ctx) ==
    IF s.round = NoRound THEN EndRoundNoop(s)
    ELSE
      LET r == s.round
          t == s.cur
          gs == s.rCorrect[t.round]
          sA == [s EXCEPT !.cur.er = r, !.cur.res = res, !.cur.round = 0,
                          !.ends = Append(@, [round |-> r, res |-> res,
                                              user |-> IF res = "correct"
                                                       THEN gs[1] ELSE "none"])]
      IN
      CASE res = "correct" ->
             \* streak update, then await updateScoreboard
             [sA EXCEPT
                !.lastGuesser =
                    IF @ = NoGuesser \/ @.userID # gs[1]
                    THEN [userID |-> gs[1], streak |-> 1]
                    ELSE [@ EXCEPT !.streak = @ + 1],
                !.wins[t.round] = Append(@, gs[1]),
                !.cur.guessers = gs,
                !.cur.pc = "er_score"]
        [] res = "none" ->
             LET sB == [NoCreditUpdate(sA) EXCEPT !.songStats[r] = @ + 1]
             IN IF ctx THEN SetPc(sB, "er_msg") ELSE EndRoundTail(sB)
        [] OTHER ->
             \* guessResult.error: no streak reset, no lives taken
             LET sB == [sA EXCEPT !.songStats[r] = @ + 1]
             IN IF ctx THEN SetPc(sB, "er_msg") ELSE EndRoundTail(sB)

(* ---------------- startRound and playSong ---------------- *)

\* connection.removeAllListeners()
removeAllListeners(s) == [s EXCEPT !.endListeners = <<>>, !.errorListeners = <<>>]

\* Session.playSong from removeAllListeners to the registration of the
\* listeners of the new play invocation
PlayNow(s) ==
    LET p == s.nPlays + 1
        s1 == [removeAllListeners(s) EXCEPT
                 !.playing = p, !.nPlays = p,
                 !.errorNotifs = Append(@, 0), !.restarts = Append(@, 0),
                 !.errEmits = Append(@, 0),
                 !.endEmits = Append(@, 0), !.endRuns = Append(@, 0),
                 !.endRestarts = Append(@, 0)]
        s2 == startGuessTimeout(s1)
    IN [s2 EXCEPT !.endListeners = Append(@, p),
                  !.errorListeners = Append(@, p),
                  !.cur = Blank]

\* Session.playSong up to the song duration query
PlaySongEntry(s) ==
    IF s.round = NoRound THEN [s EXCEPT !.cur = Blank]
    ELSE LET s1 == [s EXCEPT !.cur.round = s.round] IN
         IF s.seekBeginning THEN PlayNow(s1) ELSE SetPc(s1, "ps_seek")

\* Session.startRound from queryRandomSong to ensureVoiceConnection: no
\* song sends the song query error and ends the session; a song is made the
\* round, and a voice channel without members ends the session
SelectSong(s) ==
    IF "pool" \in s.faults
    THEN FatalEnd([s EXCEPT !.cur.msgs = @ + 1], "pool")
    ELSE LET r == Len(s.rFinished) + 1
             s1 == [s EXCEPT !.round = r,
                             !.rFinished = Append(@, FALSE),
                             !.rCorrect = Append(@, <<>>),
                             !.rMsg = Append(@, FALSE),
                             !.rSong = Append(@, s.uniquePlayed + 1),
                             !.rWrong = Append(@, {}),
                             !.rButtons = Append(@, FALSE),
                             !.songStats = Append(@, 0),
                             !.wins = Append(@, <<>>),
                             !.uniquePlayed = @ + 1]
         IN IF "channel" \in s.faults THEN FatalEnd(s1, "channel")
            ELSE SetPc(s1, "sr_voice")

\* Session.startRound after the songs are loaded: checkUniqueSongQueue
\* resets the cursor of an exhausted pool and the reset is announced
AfterReload(s) ==
    IF s.uniquePlayed = s.poolSize
    THEN SetPc([s EXCEPT !.uniquePlayed = 0], "sr_unique")
    ELSE SelectSong(s)

\* Session.startRound when reloadSongs has settled: a rejection sends the
\* song selection error, which is awaited
ReloadDone(s) ==
    IF "reload" \in s.faults
    THEN SetPc([s EXCEPT !.cur.msgs = @ + 1], "sr_errmsg")
    ELSE AfterReload([s EXCEPT !.songsLoaded = TRUE])

\* GameSession.startRound when Session.startRound has returned true: in
\* multiple choice mode it keeps the round and awaits the wrong choices
\* while playSong runs
AwaitChoices(s) ==
    IF s.multipleChoice /\ s.round # NoRound
    THEN Spawn(s, [Blank EXCEPT !.kind = "start", !.pc = "sr_choices",
                                !.round = s.round])
    ELSE s

\* Session.startRound when ensureVoiceConnection has settled: a rejection
\* ends the session, the connection is played on otherwise
VoiceDone(s) ==
    IF "voice" \in s.faults THEN FatalEnd(s, "voice")
    ELSE AwaitChoices(PlaySongEntry([s EXCEPT !.connection = TRUE,
                                              !.voiceJoined = TRUE]))

\* Session.startRound up to its first await
SessionStartRound(s) ==
    LET s1 == [s EXCEPT !.sessionInitialized = TRUE] IN
    IF ~s1.songsLoaded THEN SetPc(s1, "sr_reload") ELSE AfterReload(s1)

\* GameSession.startRound after its delay
GameStartRound(s) ==
    IF s.finished \/ s.round # NoRound THEN [s EXCEPT !.cur = Blank]
    ELSE SessionStartRound(s)

(* ---------------- listeners of the voice connection ---------------- *)

\* an "end" listener that stays registered after it ran
EndHandlerKept(s, p) ==
    LET s1 == stopGuessTimeout([s EXCEPT !.endRuns[p] = @ + 1])
        s2 == [s1 EXCEPT !.cur = [Blank EXCEPT !.kind = "end", !.play = p,
                                               !.late = s.finished]]
    IN Park(EndRoundEntry(s2, "none", TRUE))

\* an "end" listener that ends the round as a stream error does
EndHandlerAsError(s, p) ==
    LET s1 == stopGuessTimeout([s EXCEPT !.endListeners = <<0>>,
                                         !.endRuns[p] = @ + 1])
        s2 == [s1 EXCEPT !.cur = [Blank EXCEPT !.kind = "end", !.play = p,
                                               !.late = s.finished]]
    IN Park(EndRoundEntry(s2, "error", TRUE))

\* the "end" listener of playSong
EndHandler(s, p) ==
    LET s1 == stopGuessTimeout([s EXCEPT !.endListeners = <<0>>,
                                         !.endRuns[p] = @ + 1])
        s2 == [s1 EXCEPT !.cur = [Blank EXCEPT !.kind = "end", !.play = p,
                                               !.late = s.finished]]
    IN Park(EndRoundEntry(s2, "none", TRUE))

\* Session.errorRestartRound up to its first await
errorRestartRound(s, p) ==
    LET s1 == [s EXCEPT !.cur = [Blank EXCEPT !.kind = "error", !.play = p,
                                              !.hadRound = (s.round # NoRound),
                                              !.late = s.finished]]
    IN Park(EndRoundEntry(s1, "error", FALSE))

\* an "error" listener that stays registered
ErrorHandlerKept(s, p) == errorRestartRound(s, p)

\* the "error" listener of playSong
ErrorHandler(s, p) == errorRestartRound([s EXCEPT !.errorListeners = <<0>>], p)

RECURSIVE EmitEnd(_, _)
\* connection.emit("end") to the listeners registered when the event is emitted
EmitEnd(s, ls) ==
    IF ls = <<>> THEN s
    ELSE EmitEnd(IF Head(ls) = 0 THEN s ELSE EndHandler(s, Head(ls)), Tail(ls))

RECURSIVE EmitError(_, _)
\* connection.emit("error")
EmitError(s, ls) ==
    IF ls = <<>> THEN s
    ELSE EmitError(IF Head(ls) = 0 THEN s ELSE ErrorHandler(s, Head(ls)), Tail(ls))

\* Session.deleteSession
deleteSession(s) ==
    IF ~s.registered THEN s
    ELSE [s EXCEPT !.registered = FALSE, !.registryRemovals = @ + 1]

(* ---------------- the session of one guild ---------------- *)

\* the state a constructed GameSession has when the play command has
\* registered it, for a game type, a number of lives and a set of players
InitCommon(gt, lives, players) ==
    /\ gameType = gt
    /\ finished = FALSE
    /\ sessionInitialized = FALSE
    /\ registered = TRUE
    /\ connection = FALSE
    /\ voiceJoined = FALSE
    /\ startingLives = lives
    /\ round = NoRound
    /\ rFinished = <<>>
    /\ rCorrect = <<>>
    /\ rMsg = <<>>
    /\ roundsPlayed = 0
    /\ correctGuesses = 0
    /\ lastGuesser = NoGuesser
    /\ score = [p \in players |-> IF gt = "elimination" THEN lives ELSE 0]
    /\ songStats = <<>>
    /\ songMessageIDs = <<>>
    /\ bookmarked = FALSE
    /\ uniquePlayed = 0
    /\ endListeners = <<>>
    /\ errorListeners = <<>>
    /\ playing = 0
    /\ nPlays = 0
    /\ timers = {}
    /\ timerRound = <<>>
    /\ guessTimeoutFunc = 0
    /\ tasks = EmptyBag
    /\ nEvents = 0
    /\ wins = <<>>
    /\ timerEnded = {}
    /\ errorNotifs = <<>>
    /\ restarts = <<>>
    /\ statsCommits = 0
    /\ registryRemovals = 0
    /\ voiceReleases = 0
    /\ bookmarkFlushes = 0
    /\ announcements = 0
    /\ lost = [p \in players |-> 0]
    /\ songsLoaded = FALSE
    /\ nUpdates = 0
    /\ timerFired = 0
    /\ timerRestarts = 0
    /\ durationElapsed = FALSE
    /\ endCalls = 0
    /\ errEmits = <<>>
    /\ sessions = <<>>
    /\ gameSessions = NoSession
    /\ commands = EmptyBag
    /\ nCommands = 0
    /\ supersedes = {}
    /\ originalPlayers = players
    /\ firstPlace = {}
    /\ startReturns = {}
    /\ endRejects = 0
    /\ rSong = <<>>
    /\ rWrong = <<>>
    /\ rButtons = <<>>
    /\ staleCredits = {}
    /\ ignored = {}
    /\ ends = <<>>
    /\ endEmits = <<>>
    /\ endRuns = <<>>
    /\ endRestarts = <<>>
    /\ durationEnds = 0
    /\ noops = 0
    /\ blocked = {}
    /\ joining = {}
    /\ skippers = <<>>
    /\ skipEnds = {}
    /\ baseExpReward = 0
    /\ expCommits = <<>>
    /\ playerRoundResults = <<>>

\* a game session created by member A, with its players in the voice channel
InitSession(gt, lives, players) ==
    /\ InitCommon(gt, lives, players)
    /\ owner = "A"
    /\ voiceMembers = players
    /\ playerIDs = <<>>
    /\ music = FALSE
    /\ correctGuessers = <<>>
    /\ multiGuess = TRUE
    /\ songCount = 0
    /\ playerStats = [exp |-> 0, level |-> 1]
    /\ statsBefore = [exp |-> 0, level |-> 1]

\* the guild preferences the sessions are started with: a classic game with
\* a guess timeout, a seek type other than BEGINNING and a duration limit,
\* and an elimination game with none of them
Configs ==
    {[gameType |-> "classic", guessTimeoutSet |-> TRUE,
      seekBeginning |-> FALSE, durationSet |-> TRUE],
     [gameType |-> "elimination", guessTimeoutSet |-> FALSE,
      seekBeginning |-> TRUE, durationSet |-> FALSE]}

Init ==
    \E c \in Configs :
        /\ InitSession(c.gameType, StartLives, Users)
        /\ poolSize = PoolSize
        /\ faults = {}
        /\ multipleChoice = FALSE
        /\ guessTimeoutSet = c.guessTimeoutSet
        /\ seekBeginning = c.seekBeginning
        /\ durationSet = c.durationSet

\* the suspended handlers of a kind at a suspension point
At(k, p) == {t \in BagToSet(tasks) : t.kind = k /\ t.pc = p}

\* a startRound call may still select a song, of at most n
MayStartIn(n) == Len(rFinished) < n

MayStart == MayStartIn(MaxRounds)

\* an event of the environment may still arrive, of at most n
MayHappen(n) == nEvents < n

Happened(s) == [s EXCEPT !.nEvents = @ + 1]

\* play command: gameSession.startRound of the session it has registered
PlayStartRound ==
    /\ ~sessionInitialized
    /\ ~finished
    /\ tasks = EmptyBag
    /\ LET s == [Cur EXCEPT !.cur = [Blank EXCEPT !.kind = "start", !.pc = "run"]]
       IN Set(Park(GameStartRound(s)))

\* GameSession.startRound resumes after delay(SONG_START_DELAY)
StartRoundAfterDelayIn(n) ==
    \E t \in At("start", "sr_delay") :
        /\ MayStartIn(n)
        /\ Set(Park(GameStartRound(Resume(t))))

StartRoundAfterDelay == StartRoundAfterDelayIn(MaxRounds)

\* Session.startRound resumes after reloadSongs
StartRoundAfterReloadIn(n) ==
    \E t \in At("start", "sr_reload") :
        /\ MayStartIn(n)
        /\ Set(Park(ReloadDone(Resume(t))))

StartRoundAfterReload == StartRoundAfterReloadIn(MaxRounds)

\* Session.startRound resumes after the unique songs reset message
StartRoundAfterUniqueIn(n) ==
    \E t \in At("start", "sr_unique") :
        /\ MayStartIn(n)
        /\ Set(Park(SelectSong(Resume(t))))

StartRoundAfterUnique == StartRoundAfterUniqueIn(MaxRounds)

\* Session.startRound resumes after ensureVoiceConnection and calls playSong
StartRoundAfterVoice ==
    \E t \in At("start", "sr_voice") :
        Set(Park(VoiceDone(Resume(t))))

\* Session.playSong resumes after the song duration query
PlaySongAfterSeek ==
    \E t \in At("start", "ps_seek") :
        Set(Park(PlayNow(Resume(t))))

\* GameRound.userCorrect: the user joins the ordered correct guessers once
userCorrect(gs, u) ==
    IF \E k \in 1..Len(gs) : gs[k] = u THEN gs ELSE Append(gs, u)

\* the context of a guess of user u: written in the text channel of the
\* session by a member of its voice channel, with song g as its answer
Ctx(u, g) == [author |-> u, voice |-> TRUE, text |-> TRUE, guess |-> g, via |-> 0]

\* a guess gate that lets every author pass
guessEligibleAnyone(s, m) == TRUE

\* GameSession.guessEligible
guessEligible(s, m) ==
    IF ~m.voice THEN FALSE
    ELSE IF ~m.text THEN FALSE
    ELSE IF s.gameType = "elimination"
         THEN m.author \in DOMAIN s.score /\ ~isEliminated(s.score[m.author])
         ELSE IF s.gameType = "teams" THEN m.author \in DOMAIN s.score
              ELSE TRUE

\* a checkGuess that does not look at the members who answered wrong
checkGuessAnyone(s, m) ==
    /\ s.round # NoRound
    /\ m.guess = s.rSong[s.round]

\* GameSession.checkGuess: whether the guess earns points in the current
\* round, which it does when it names the song of that round
checkGuess(s, m) ==
    /\ s.round # NoRound
    /\ ~(s.multipleChoice /\ m.author \in s.rWrong[s.round])
    /\ m.guess = s.rSong[s.round]

\* guessSong without the guard on round.finished
RoundNeverWon(s, r) == FALSE

\* the guard of guessSong on round.finished
RoundAlreadyWon(s, r) == s.rFinished[r]

\* GameSession.guessSong for the guess of context m, up to its first await
guessSong(s, m) ==
    IF ~s.connection \/ Len(s.endListeners) = 0 \/ s.round = NoRound
       \/ ~guessEligible(s, m)
    THEN [s EXCEPT !.ignored = @ \cup {m}]
    ELSE LET r == s.round IN
         IF checkGuess(s, m)
         THEN LET s1 == [s EXCEPT
                           !.rCorrect[r] = userCorrect(@, m.author),
                           !.staleCredits =
                               IF m.via \in {0, r} THEN @
                               ELSE @ \cup {[user |-> m.author, via |-> m.via,
                                             round |-> r]}]
              IN IF RoundAlreadyWon(s1, r) THEN s1
                 ELSE [s1 EXCEPT !.rFinished[r] = TRUE,
                                 !.cur = [Blank EXCEPT !.kind = "guess",
                                                       !.pc = "g_delay",
                                                       !.round = r,
                                                       !.late = s.finished]]
         ELSE LET s0 == [s EXCEPT !.blocked =
                                    IF m.guess = s.rSong[r]
                                    THEN @ \cup {[user |-> m.author, round |-> r]}
                                    ELSE @]
              IN IF s.multipleChoice /\ Users \subseteq s.rWrong[r]
                 THEN \* every voice member has guessed wrong: endRound
                      EndRoundEntry([s0 EXCEPT !.cur = [Blank EXCEPT !.kind = "wrong",
                                                                     !.late = s.finished]],
                                    "none", TRUE)
                 ELSE s0

\* a user sends a correct guess, as one of at most n events
GuessSongIn(u, n) ==
    /\ MayHappen(n)
    /\ round # NoRound
    /\ Set(Park(guessSong(Happened(Cur), Ctx(u, rSong[round]))))

GuessSong(u) == GuessSongIn(u, MaxEvents)

\* guessSong resumes after the multiguess delay and calls endRound
GuessAfterDelay ==
    \E t \in At("guess", "g_delay") :
        Set(Park(EndRoundEntry(Resume(t), "correct", TRUE)))

\* guessSong resumes after the songs_guessed increment and calls startRound
GuessAfterDb ==
    \E t \in At("guess", "g_db") :
        Set(Park(SpawnStart(Resume(t))))

\* GameSession.endRound resumes after updateScoreboard
EndRoundAfterScore ==
    \E t \in {x \in BagToSet(tasks) : x.pc = "er_score"} :
        LET s == ScoreboardUpdate(Resume(t), t.guessers)
        IN Set(Park([s EXCEPT !.songStats[t.er] = @ + 1,
                              !.cur.guessers = <<>>,
                              !.cur.pc = "er_msg"]))

\* GameSession.endRound resumes after the round message is sent
EndRoundAfterMessage ==
    \E t \in {x \in BagToSet(tasks) : x.pc = "er_msg"} :
        Set(Park(EndRoundTail([Resume(t) EXCEPT !.rMsg[t.er] = TRUE])))

\* the callback of startGuessTimeout
guessTimeout(s, tm) ==
    LET s1 == [s EXCEPT !.timers = @ \ {tm}] IN
    IF s1.finished \/ s1.round = NoRound \/ s1.rFinished[s1.round] THEN s1
    ELSE EndRoundEntry(
           [s1 EXCEPT !.timerFired = @ + 1,
                      !.timerEnded = @ \cup {<<s.timerRound[tm], s.round>>},
                      !.cur = [Blank EXCEPT !.kind = "timer"]],
           "none", TRUE)

\* an armed guess timeout fires, as one of at most n events
TimerFireIn(n) ==
    \E tm \in timers :
        /\ MayHappen(n)
        /\ Set(Park(guessTimeout(Happened(Cur), tm)))

TimerFire == TimerFireIn(MaxEvents)

\* the voice connection emits "end", as one of at most n events
StreamEndIn(n) ==
    /\ MayHappen(n)
    /\ playing # 0
    /\ Set(EmitEnd([Happened(Cur) EXCEPT !.endEmits[playing] = @ + 1],
                   endListeners))

StreamEnd == StreamEndIn(MaxEvents)

\* the voice connection emits "error"
StreamErrorIn(n) ==
    /\ MayHappen(n)
    /\ playing # 0
    /\ Set(EmitError([Happened(Cur) EXCEPT !.errEmits[playing] = @ + 1],
                     errorListeners))

StreamError == StreamErrorIn(MaxEvents)

\* errorRestartRound resumes after sendErrorMessage
ErrorAfterMessage ==
    \E t \in At("error", "err_msg") :
        LET s == Resume(t)
        IN Set(Park(SpawnStart([s EXCEPT !.roundsPlayed = @ - 1,
                                         !.cur.delta = @ - 1])))

\* GameSession.endSession when the player statistics (Promise.allSettled),
\* the game_sessions insert and storeSongStats (Promise.allSettled) have
\* settled: a rejected insert throws, Session.endSession is called otherwise
CommitDone(s) ==
    IF "gameSessions" \in s.faults THEN Reject(s)
    ELSE EndRoundEntry(deleteSession(s), "none", TRUE)

\* Session.endSession when the bookmark transaction and the guild counter
\* increment have settled: a rejection throws, GameSession.endSession sends
\* the end game message otherwise
GuildDone(s) ==
    IF (s.bookmarked /\ "bookmarks" \in s.faults) \/ "guild" \in s.faults
    THEN Reject(s)
    ELSE AfterEndSession([s EXCEPT !.announcements = @ + 1])

\* GameSession.endSession resumes after the statistics are committed and
\* calls Session.endSession
EndSessionAfterCommit ==
    \E t \in At("endSession", "es_commit") :
        Set(Park(CommitDone(Resume(t))))

\* Session.endSession resumes after the guild counter increment, and
\* GameSession.endSession sends the end game message
EndSessionAfterGuild ==
    \E t \in At("endSession", "es_guild") :
        Set(Park(GuildDone(Resume(t))))

\* Session.startRound resumes after the song selection error message and
\* ends the session
StartRoundAfterErrorMessage ==
    \E t \in At("start", "sr_errmsg") :
        Set(Park(FatalEnd(Resume(t), "reload")))

\* Session.startRound resumes after the voice join error message and
\* returns false
StartRoundAfterJoinMessage ==
    \E t \in At("start", "sr_vcmsg") :
        Set(Park(ReturnFalse(Resume(t))))

\* the environment starts to fail in one way: the song query rejects, the
\* pool has no song, the voice channel empties, the voice gateway rejects,
\* a write of endSession is rejected
Fault(f) ==
    /\ MayHappen(MaxEvents)
    /\ f \notin faults
    /\ Set([Happened(Cur) EXCEPT !.faults = @ \cup {f}])

\* endSession is called from outside the round machinery (end command,
\* voice channel left empty, inactivity cleanup)
CallEndSession ==
    /\ MayHappen(MaxEvents)
    /\ sessionInitialized
    /\ Set(EndSessionCall(Happened(Cur)))

\* the duration limit of the session passes
DurationElapses ==
    /\ MayHappen(MaxEvents)
    /\ durationSet
    /\ ~durationElapsed
    /\ sessionInitialized
    /\ Set([Happened(Cur) EXCEPT !.durationElapsed = TRUE])

\* a user bookmarks a song of the ring
Bookmark ==
    /\ MayHappen(MaxEvents)
    /\ ~bookmarked
    /\ Len(songMessageIDs) > 0
    /\ Set([Happened(Cur) EXCEPT !.bookmarked = TRUE])

Next ==
    \/ PlayStartRound
    \/ StartRoundAfterDelay
    \/ StartRoundAfterReload
    \/ StartRoundAfterUnique
    \/ StartRoundAfterVoice
    \/ PlaySongAfterSeek
    \/ \E u \in Users : GuessSong(u)
    \/ GuessAfterDelay
    \/ GuessAfterDb
    \/ EndRoundAfterScore
    \/ EndRoundAfterMessage
    \/ TimerFire
    \/ StreamEnd
    \/ StreamError
    \/ ErrorAfterMessage
    \/ EndSessionAfterCommit
    \/ EndSessionAfterGuild
    \/ CallEndSession
    \/ DurationElapses
    \/ Bookmark

Spec == Init /\ [][Next]_vars

(* ---------------- a session with guesses and timeouts only ---------------- *)

\* a classic game with a guess timeout, whose environment sends correct
\* guesses and lets the armed timeouts fire, MaxTimerEvents events in all
InitTimer == Init /\ guessTimeoutSet

NextTimer ==
    \/ PlayStartRound
    \/ StartRoundAfterDelay
    \/ StartRoundAfterReload
    \/ StartRoundAfterUnique
    \/ StartRoundAfterVoice
    \/ PlaySongAfterSeek
    \/ \E u \in Users : GuessSongIn(u, MaxTimerEvents)
    \/ GuessAfterDelay
    \/ GuessAfterDb
    \/ EndRoundAfterScore
    \/ EndRoundAfterMessage
    \/ TimerFireIn(MaxTimerEvents)

SpecTimer == InitTimer /\ [][NextTimer]_vars

(* ---------------- the elimination scoreboard alone ---------------- *)

ElimPlayers == {"A", "B", "C"}

\* a scoreboard of three players who start with up to StartLives + 1 lives
InitElim ==
    /\ \E lives \in 1..(StartLives + 1) :
          InitSession("elimination", lives, ElimPlayers)
    /\ guessTimeoutSet = FALSE
    /\ seekBeginning = TRUE
    /\ durationSet = FALSE
    /\ poolSize = PoolSize
    /\ faults = {}
    /\ multipleChoice = FALSE

\* scoreboard.updateScoreboard(_, winnerID, ...) for a round winnerID won
ElimUpdateScoreboard(winnerID) ==
    /\ nUpdates < MaxUpdates
    /\ Set([Cur EXCEPT !.score = updateScoreboard(@, winnerID),
                       !.firstPlace = firstPlaceOf(updateScoreboard(score, winnerID),
                                                   DOMAIN score, -1, @),
                       !.lost = [p \in DOMAIN @ |->
                                   IF p = winnerID THEN @[p] ELSE @[p] + 1],
                       !.nUpdates = @ + 1])

\* scoreboard.decrementAllLives() for a round nobody won
ElimDecrementAllLives ==
    /\ nUpdates < MaxUpdates
    /\ Set([Cur EXCEPT !.score = decrementAllLives(@),
                       !.lost = [p \in DOMAIN @ |-> @[p] + 1],
                       !.nUpdates = @ + 1])

NextElim ==
    \/ \E w \in ElimPlayers : ElimUpdateScoreboard(w)
    \/ ElimDecrementAllLives

SpecElim == InitElim /\ [][NextElim]_vars

(* ---------------- the elimination scoreboard with late joiners ---------------- *)

\* the least element of a non-empty set of numbers
Min(S) == CHOOSE x \in S : \A y \in S : x <= y

\* EliminationScoreboard.getLivesOfWeakestPlayer: the lives of the weakest
\* player, read either over all players or over those still in the game
getLivesOfWeakestPlayer(sc) ==
    LET all == {sc[p] : p \in DOMAIN sc}
        alive == {sc[p] : p \in {q \in DOMAIN sc : ~isEliminated(sc[q])}}
    IN {Min(all)} \cup (IF alive = {} THEN {} ELSE {Min(alive)})

\* a game that starts with one, two or three of the players
InitJoin ==
    /\ \E players \in (SUBSET ElimPlayers) \ {{}} :
         \E lives \in 1..(StartLives + 1) :
            InitSession("elimination", lives, players)
    /\ guessTimeoutSet = FALSE
    /\ seekBeginning = TRUE
    /\ durationSet = FALSE
    /\ poolSize = PoolSize
    /\ faults = {}
    /\ multipleChoice = FALSE

\* GameSession.setPlayerInVC(userID, true) for a user who is not on the
\* scoreboard: the arguments of EliminationPlayer.fromUserID are evaluated in
\* order, so the lives of the weakest player are read, and then the call
\* waits for isFirstGameOfDay and isUserPremium
setPlayerInVC(userID) ==
    /\ userID \notin DOMAIN score
    /\ \E l \in getLivesOfWeakestPlayer(score) :
          /\ [userID |-> userID, lives |-> l] \notin joining
          /\ Set([Cur EXCEPT !.joining = @ \cup {[userID |-> userID, lives |-> l]}])

\* the rest of setPlayerInVC, once the two lookups have answered:
\* scoreboard.addPlayer with the lives read before them
ElimAddPlayer(j) ==
    /\ j \in joining
    /\ Set([Cur EXCEPT !.score = (j.userID :> j.lives) @@ @,
                       !.lost = (j.userID :> 0) @@ @,
                       !.joining = @ \ {j}])

\* a round won by a player of the scoreboard
JoinUpdateScoreboard == \E w \in DOMAIN score : ElimUpdateScoreboard(w)

NextJoin ==
    \/ \E u \in ElimPlayers : setPlayerInVC(u)
    \/ \E j \in joining : ElimAddPlayer(j)
    \/ JoinUpdateScoreboard
    \/ ElimDecrementAllLives

SpecJoin == InitJoin /\ [][NextJoin]_vars

(* ---------------- the scenarios of one player who wins every round ---------------- *)

\* an elimination game of three players with ScenarioLives lives, and a
\* classic game of one player; both with a pool of ScenarioPool songs, no
\* guess timeout, no duration limit and no goal
InitScenario ==
    /\ \/ InitSession("elimination", ScenarioLives, ElimPlayers)
       \/ InitSession("classic", ScenarioLives, {"A"})
    /\ poolSize = ScenarioPool
    /\ faults = {}
    /\ multipleChoice = FALSE
    /\ guessTimeoutSet = FALSE
    /\ seekBeginning = TRUE
    /\ durationSet = FALSE

\* player A guesses every round correctly, and nothing else happens
NextScenario ==
    \/ PlayStartRound
    \/ StartRoundAfterDelayIn(ScenarioLives + 1)
    \/ StartRoundAfterReloadIn(ScenarioLives + 1)
    \/ StartRoundAfterUniqueIn(ScenarioLives + 1)
    \/ StartRoundAfterVoice
    \/ GuessSongIn("A", ScenarioLives)
    \/ GuessAfterDelay
    \/ GuessAfterDb
    \/ EndRoundAfterScore
    \/ EndRoundAfterMessage
    \/ EndSessionAfterCommit
    \/ EndSessionAfterGuild

SpecScenario == InitScenario /\ [][NextScenario]_vars

(* ---------------- the play command of one guild ---------------- *)

PlayTypes == {"classic", "teams"}

\* new GameSession(...)
NewSession(gt) ==
    [gameType |-> gt, finished |-> FALSE, sessionInitialized |-> FALSE,
     registeredOnce |-> FALSE, ended |-> FALSE]

NoCommand ==
    [kind |-> "none", pc |-> "done", gameType |-> "classic",
     mine |-> NoSession, target |-> NoSession, seen |-> NoSession]

\* the state when the bot is up and the guild has no session
InitPlay ==
    /\ InitSession("classic", StartLives, Users)
    /\ guessTimeoutSet = FALSE
    /\ seekBeginning = TRUE
    /\ durationSet = FALSE
    /\ poolSize = PoolSize
    /\ faults = {}
    /\ multipleChoice = FALSE

Suspended(k, p) == {c \in BagToSet(commands) : c.kind = k /\ c.pc = p}

\* the command c leaves its suspension point, and suspends as d unless done
Step(s, c, d) ==
    LET rest == s.commands (-) SetToBag({c}) IN
    [s EXCEPT !.commands = IF d.pc = "done" THEN rest
                           ELSE rest (+) SetToBag({d})]

\* play.ts: State.gameSessions[guildID] = gameSession, and what follows
Register(s, c) ==
    LET had == {c.seen, s.gameSessions} \ {NoSession}
        s1 == [s EXCEPT !.supersedes = @ \cup {<<o, c.mine>> : o \in had},
                        !.gameSessions = c.mine,
                        !.sessions[c.mine].registeredOnce = TRUE]
    IN Step(s1, c, IF c.gameType # "teams"
                   THEN [c EXCEPT !.pc = "p_begin"]
                   ELSE [c EXCEPT !.pc = "done"])

\* play.ts: prevent any duplicate game sessions
PreventDuplicate(s, c) ==
    IF s.gameSessions = NoSession THEN Register(s, c)
    ELSE LET old == s.gameSessions IN
         IF s.sessions[old].finished THEN Register(s, c)
         ELSE Step([s EXCEPT !.sessions[old].finished = TRUE], c,
                   [c EXCEPT !.pc = "p_end_commit", !.target = old])

\* GameSession.startRound of a session that has no round: the first call
\* marks the session initialized
FirstStartRound(s, i) ==
    IF s.sessions[i].finished THEN s
    ELSE [s EXCEPT !.sessions[i].sessionInitialized = TRUE]

\* PlayCommand.call up to await areUsersPremium
PlayCall(gt) ==
    /\ nCommands < MaxCommands
    /\ LET s == [Cur EXCEPT !.nCommands = @ + 1]
           old == gameSessions
       IN IF old # NoSession /\ sessions[old].sessionInitialized
          THEN Set(s)
          ELSE LET s1 == IF old # NoSession /\ gt = "teams"
                         THEN [s EXCEPT !.gameSessions = NoSession]
                         ELSE s
               IN Set([s1 EXCEPT !.commands = @ (+) SetToBag(
                          {[NoCommand EXCEPT !.kind = "play", !.pc = "p_premium",
                                             !.gameType = gt, !.seen = old]})])

\* PlayCommand.call resumes after areUsersPremium and creates the session
PlayAfterPremium ==
    \E c \in Suspended("play", "p_premium") :
        LET n == Len(sessions) + 1
            s == [Cur EXCEPT !.sessions = Append(@, NewSession(c.gameType))]
            d == [c EXCEPT !.mine = n]
        IN IF c.gameType = "teams"
           THEN Set(Step(s, c, [d EXCEPT !.pc = "p_teams"]))
           ELSE Set(PreventDuplicate(Step(s, c, [d EXCEPT !.pc = "run"]),
                                     [d EXCEPT !.pc = "run"]))

\* PlayCommand.call resumes after the join instructions of a teams game
PlayAfterTeamsMessage ==
    \E c \in Suspended("play", "p_teams") :
        Set(PreventDuplicate(Cur, c))

\* the endSession awaited by the play command: Session.endSession removes
\* what is registered for the guild
PlayEndAfterCommit ==
    \E c \in Suspended("play", "p_end_commit") :
        Set(Step([Cur EXCEPT !.gameSessions = NoSession], c,
                 [c EXCEPT !.pc = "p_end_guild"]))

\* the endSession awaited by the play command returns
PlayEndAfterGuild ==
    \E c \in Suspended("play", "p_end_guild") :
        Set(Register([Cur EXCEPT !.sessions[c.target].ended = TRUE], c))

\* PlayCommand.call resumes after sendBeginGameSessionMessage
PlayAfterBeginMessage ==
    \E c \in Suspended("play", "p_begin") :
        Set(Step(FirstStartRound(Cur, c.mine), c, [c EXCEPT !.pc = "done"]))

\* BeginCommand.call up to await getGuildPreference
BeginCall ==
    /\ nCommands < MaxCommands
    /\ gameSessions # NoSession
    /\ sessions[gameSessions].gameType # "classic"
    /\ Set([Cur EXCEPT !.nCommands = @ + 1,
                       !.commands = @ (+) SetToBag(
                          {[NoCommand EXCEPT !.kind = "begin", !.pc = "b_pref",
                                             !.target = gameSessions]})])

\* BeginCommand.call resumes after getGuildPreference
BeginAfterPreference ==
    \E c \in Suspended("begin", "b_pref") :
        Set(Step(Cur, c, IF sessions[c.target].sessionInitialized
                         THEN [c EXCEPT !.pc = "done"]
                         ELSE [c EXCEPT !.pc = "b_msg"]))

\* BeginCommand.call resumes after the starting message and starts the round
BeginAfterMessage ==
    \E c \in Suspended("begin", "b_msg") :
        Set(Step(FirstStartRound(Cur, c.target), c, [c EXCEPT !.pc = "done"]))

NextPlay ==
    \/ \E gt \in PlayTypes : PlayCall(gt)
    \/ PlayAfterPremium
    \/ PlayAfterTeamsMessage
    \/ PlayEndAfterCommit
    \/ PlayEndAfterGuild
    \/ PlayAfterBeginMessage
    \/ BeginCall
    \/ BeginAfterPreference
    \/ BeginAfterMessage

SpecPlay == InitPlay /\ [][NextPlay]_vars

(* ======================= the claims ======================= *)

\* the suspended handlers of a kind
Handlers(k) == {t \in BagToSet(tasks) : t.kind = k}

\* the number of suspended handlers that satisfy P
InFlight(P(_)) ==
    LET S == {t \in BagToSet(tasks) : P(t)}
        RECURSIVE Sum(_)
        Sum(X) == IF X = {} THEN 0
                  ELSE LET x == CHOOSE y \in X : TRUE
                       IN CopiesIn(x, tasks) + Sum(X \ {x})
    IN Sum(S)

\* C1: however often endSession is called, in succession or while an earlier
\* call is suspended, the statistics commit, the registry removal, the voice
\* release, the bookmark flush and the end-of-game announcement each happen
\* at most once, and a session whose endSession has returned has had its
\* commit, its removal and its announcement exactly once.
C1_EndSessionOnce ==
    /\ statsCommits <= 1
    /\ registryRemovals <= 1
    /\ voiceReleases <= 1
    /\ bookmarkFlushes <= 1
    /\ announcements <= 1
    /\ (statsCommits = 1) = finished
    /\ announcements = 1 => statsCommits = 1 /\ registryRemovals = 1
    /\ endCalls >= 1 => finished

\* C1 witness: endSession was called again and the teardown has run once
C1_Witness ==
    /\ endCalls >= 2
    /\ announcements = 1
    /\ statsCommits = 1
    /\ registryRemovals = 1
    /\ voiceReleases = 1

\* C2: when only guess handlers, end-of-stream callbacks and guess-timeout
\* callbacks try to end the rounds (no stream error, no endSession), exactly
\* one of them performs the round-end side effects of a round: its song
\* statistics are incremented once, at most one handler is inside endRound
\* for it, and a round that was won has not also had its streak reset and
\* lives taken by an uncredited end.
C2_SingleRoundEnd ==
    ((\A p \in DOMAIN errEmits : errEmits[p] = 0) /\ endCalls = 0) =>
        \A r \in DOMAIN songStats :
            /\ songStats[r] <= 1
            /\ InFlight(LAMBDA t : t.er = r) <= 1

\* C3: once finished is set it stays set, and when every handler of a
\* guess, a timeout, a stream end or a stream error that is still suspended
\* began after the session finished, no step changes correctGuesses or
\* roundsPlayed, gives the streak to a guesser, gives points, or makes a new
\* round active; the only changes left are those of endSession's own
\* endRound (the streak reset and the lives it takes) and the round of a
\* startRound call that was suspended in Session.startRound when the
\* session finished.
C3_FinishedAbsorbing ==
    [][(finished /\ \A t \in BagToSet(tasks) :
                       t.kind \in {"guess", "timer", "end", "error"} => t.late) =>
         /\ finished'
         /\ correctGuesses' = correctGuesses
         /\ roundsPlayed' = roundsPlayed
         /\ lastGuesser' \in {lastGuesser, NoGuesser}
         /\ score' \in {score, decrementAllLives(score)}
         /\ \/ round' \in {round, NoRound}
            \/ \E t \in Handlers("start") : t.pc \in {"sr_reload", "sr_unique"}]_vars

\* C5: a round is won once, by its first correct guesser: the correct
\* guesses of a round lead to at most one round end with a winner and one
\* streak update, and it credits the first of the round's correct guessers.
C5_NoDoubleWin ==
    \A r \in DOMAIN wins :
        /\ Len(wins[r]) <= 1
        /\ Len(wins[r]) = 1 => wins[r][1] = rCorrect[r][1]
        /\ InFlight(LAMBDA t : t.kind = "guess" /\ t.round = r) <= 1
        /\ rFinished[r] = (Len(rCorrect[r]) > 0)

\* C5 witness: two users guessed a round correctly and it was won once
C5_Witness ==
    \E r \in DOMAIN wins :
        /\ Len(rCorrect[r]) = 2
        /\ Len(wins[r]) = 1
        /\ lastGuesser.userID = rCorrect[r][1]

C8_ErrorRoundNotCounted ==
    \A t \in Handlers("error") :
        (t.pc = "err_msg" /\ t.hadRound) => t.delta = 1

\* C9: a play invocation for which the connection emitted errors has had
\* exactly one error notification and, when the notification is sent,
\* exactly one restart; one without errors has had none.
C9_OneNotificationOneRestart ==
    \A p \in DOMAIN errEmits :
        /\ errorNotifs[p] = (IF errEmits[p] >= 1 THEN 1 ELSE 0)
        /\ restarts[p]
             + InFlight(LAMBDA t : t.kind = "error" /\ t.play = p)
             = errorNotifs[p]

\* C9 witness: the connection emitted two errors for one play invocation,
\* which had one notification and one restart
C9_Witness ==
    \E p \in DOMAIN errEmits :
        /\ errEmits[p] >= 2
        /\ errorNotifs[p] = 1
        /\ restarts[p] = 1

\* C6: a guess timeout armed for one round never ends a later round: every
\* round a timeout callback has ended is the round the timeout was armed for.
C6_NoStaleTimeout ==
    \A p \in timerEnded : p[1] = p[2]

\* C10: on an elimination scoreboard whose players start with L lives, after
\* any sequence of rounds every player has max(0, L - n) lives, n being the
\* number of rounds the player did not win: the winner of a round keeps his
\* lives and everybody else loses exactly one, down to 0.
C10_LivesAreStartMinusLost ==
    \A p \in DOMAIN score :
        /\ score[p] = Max(0, startingLives - lost[p])
        /\ isEliminated(score[p]) = (lost[p] >= startingLives)

\* C10 witness: after some won rounds one player is at the floor, having
\* lost more rounds than he had lives, and another still has all his lives
C10_Witness ==
    \E p, q \in DOMAIN score :
        /\ lost[p] > startingLives
        /\ score[p] = 0
        /\ lost[q] = 0
        /\ score[q] = startingLives
        /\ nUpdates > startingLives

\* C4: a guild has at most one live session, and a session is registered
\* over a session the guild had only when that session is terminated and
\* finalized: every session that was registered and no longer is has its
\* finished flag set, and every session a play command found for the guild
\* and registered a new one over has had its endSession run to the end.
C4_OneLiveSession ==
    /\ \A i \in DOMAIN sessions :
          (sessions[i].registeredOnce /\ gameSessions # i) => sessions[i].finished
    /\ \A p \in supersedes :
          sessions[p[1]].finished /\ sessions[p[1]].ended

\* C11: gameFinished() is true exactly when every player is at 0 lives, or
\* the game started with at least two players and exactly one player is
\* above 0 lives; so a game of a single player who has lives is not
\* finished, and a game with two or more players above 0 is not finished.
C11_GameFinishedIff ==
    LET alive == {p \in DOMAIN score : score[p] > 0} IN
    gameFinished(score) =
        \/ alive = {}
        \/ Cardinality(originalPlayers) >= 2 /\ Cardinality(alive) = 1

\* C13: getWinners() is empty before any scoring update, and after any
\* sequence of won rounds (updateScoreboard) and rounds nobody won
\* (decrementAllLives) it is exactly the set of the players who hold the
\* highest number of lives, all tied players included, hence not empty.
C13_WinnersAreTopPlayers ==
    /\ nUpdates = 0 => firstPlace = {}
    /\ nUpdates > 0 =>
          firstPlace = {p \in DOMAIN score : \A q \in DOMAIN score : score[q] <= score[p]}

\* the rounds whose scoreboard update has been applied
RoundsScored == Cardinality({r \in DOMAIN songStats : songStats[r] >= 1})

\* C12: in an elimination game of three players with L lives where A wins
\* every round, A keeps L lives and B and C have L minus the number of rounds
\* won; gameFinished() is false after each of the rounds 1..L-1 and true
\* after round L, when B and C are at 0 and eliminated; getWinners() is
\* exactly [A]; the session is not finished before round L and is finished
\* when round L has ended.
C12_WinnerTakesAll ==
    gameType = "elimination" =>
        /\ score["A"] = startingLives
        /\ \A p \in {"B", "C"} :
              /\ score[p] = startingLives - RoundsScored
              /\ isEliminated(score[p]) = (RoundsScored = startingLives)
        /\ gameFinished(score) = (RoundsScored = startingLives)
        /\ RoundsScored >= 1 => firstPlace = {"A"}
        /\ finished => RoundsScored = startingLives
        /\ roundsPlayed = startingLives => finished

\* C12 witness: round L has ended with B and C at 0 lives and the session
\* has been ended and announced
C12_Witness ==
    /\ gameType = "elimination"
    /\ RoundsScored = ScenarioLives
    /\ roundsPlayed = ScenarioLives
    /\ score = [p \in ElimPlayers |-> IF p = "A" THEN ScenarioLives ELSE 0]
    /\ firstPlace = {"A"}
    /\ finished
    /\ announcements = 1

\* C14: in a classic game of one player with a pool of three songs, no
\* duration limit and no goal, where the player guesses every round, the
\* session is never finished, the player has one point (two half points) for
\* every round scored and roundsPlayed counts every round that has ended: so
\* after the third round the score is 3 and roundsPlayed is 3, and the
\* exhausted pool is reset and play continues.
C14_PoolExhaustionContinues ==
    gameType = "classic" =>
        /\ ~finished
        /\ score["A"] = 2 * RoundsScored
        /\ roundsPlayed = RoundsScored - InFlight(LAMBDA t : t.pc = "er_msg")
        /\ correctGuesses <= roundsPlayed
        /\ uniquePlayed <= poolSize
        /\ round # NoRound => round <= roundsPlayed + 1

\* C14 witness: three rounds were guessed, the score is 3, roundsPlayed is 3,
\* the cursor was reset and the fourth round is playing
C14_Witness ==
    /\ gameType = "classic"
    /\ roundsPlayed = ScenarioPool
    /\ score["A"] = 2 * ScenarioPool
    /\ correctGuesses = ScenarioPool
    /\ ~finished
    /\ round = ScenarioPool + 1
    /\ uniquePlayed = 1
    /\ playing # 0

(* ---------------- a session whose startRound meets failures ---------------- *)

\* the session of Spec in an environment that, beside guesses, stream
\* errors and outside calls of endSession, starts to fail in the ways of
\* StartFaults
NextFatal ==
    \/ PlayStartRound
    \/ StartRoundAfterDelay
    \/ StartRoundAfterReload
    \/ StartRoundAfterUnique
    \/ StartRoundAfterVoice
    \/ StartRoundAfterErrorMessage
    \/ StartRoundAfterJoinMessage
    \/ PlaySongAfterSeek
    \/ \E u \in Users : GuessSong(u)
    \/ GuessAfterDelay
    \/ GuessAfterDb
    \/ EndRoundAfterScore
    \/ EndRoundAfterMessage
    \/ StreamError
    \/ ErrorAfterMessage
    \/ EndSessionAfterCommit
    \/ EndSessionAfterGuild
    \/ CallEndSession
    \/ \E f \in StartFaults : Fault(f)

SpecFatal == Init /\ [][NextFatal]_vars

\* C15: a startRound call that fails on a fatal path returns false with the
\* session ended: finished is true and no round is attached to it when the
\* call returns, and the session is out of the registry as soon as no
\* endSession call is still running.
C15_FatalStartEndsSession ==
    /\ \A r \in startReturns : r.finished /\ ~r.round
    /\ (startReturns # {} /\ Handlers("endSession") = {}) => ~registered

\* C16: a startRound call that fails on a fatal path has sent exactly one
\* error message when it returns, and the handler of a stream error sends
\* one error message for the play invocation that failed.
C16_OneErrorMessage ==
    /\ \A r \in startReturns : r.msgs = 1
    /\ \A p \in DOMAIN errorNotifs : errorNotifs[p] <= 1

(* ---------------- a session whose writes at the end are rejected ---------------- *)

\* the sessions of Init with a database that rejects one of the writes of
\* endSession, or none
InitTeardown ==
    /\ \E c \in Configs :
          /\ InitSession(c.gameType, StartLives, Users)
          /\ guessTimeoutSet = c.guessTimeoutSet
          /\ seekBeginning = c.seekBeginning
          /\ durationSet = c.durationSet
    /\ poolSize = PoolSize
    /\ \E F \in {{}} \cup {{f} : f \in PersistFaults} : faults = F
    /\ multipleChoice = FALSE

\* the end command: endSession is called while a round is playing and no
\* handler is suspended
EndCommand ==
    /\ playing # 0
    /\ tasks = EmptyBag
    /\ CallEndSession

\* rounds are played and guessed, songs are bookmarked, and the session is
\* ended by the end command or by its scoreboard
NextTeardown ==
    \/ PlayStartRound
    \/ StartRoundAfterDelay
    \/ StartRoundAfterReload
    \/ StartRoundAfterUnique
    \/ StartRoundAfterVoice
    \/ PlaySongAfterSeek
    \/ \E u \in Users : GuessSong(u)
    \/ GuessAfterDelay
    \/ GuessAfterDb
    \/ EndRoundAfterScore
    \/ EndRoundAfterMessage
    \/ Bookmark
    \/ EndCommand
    \/ EndSessionAfterCommit
    \/ EndSessionAfterGuild

SpecTeardown == InitTeardown /\ [][NextTeardown]_vars

\* C17: when endSession is over, whether or not a write of it was rejected,
\* the session is out of the registry, no round is attached, the voice
\* connection is released and the end of the game was announced once.
C17_TeardownSurvivesRejectedWrite ==
    (finished /\ Handlers("endSession") = {}) =>
        /\ ~registered
        /\ round = NoRound
        /\ ~voiceJoined
        /\ announcements = 1

(* ---------------- the gate of guessSong ---------------- *)

\* a user who is not on the scoreboard
Outsider == "Z"

\* the guess messages the session can receive: from a player or an
\* outsider, from inside or outside its voice channel, written in its text
\* channel or in another one; the answer is a song of the pool
Messages ==
    [author : Users \cup {Outsider}, voice : BOOLEAN, text : BOOLEAN,
     guess : 1..PoolSize, via : {0}]

\* a session of each game type whose scoreboard holds the players of Users
InitGate ==
    /\ \E gt \in {"classic", "elimination", "teams"} :
          InitSession(gt, StartLives, Users)
    /\ poolSize = PoolSize
    /\ faults = {}
    /\ multipleChoice = FALSE
    /\ guessTimeoutSet = FALSE
    /\ seekBeginning = TRUE
    /\ durationSet = FALSE

\* the message handler calls guessSong for a message of the guild
GuessMessage(m) ==
    /\ MayHappen(MaxEvents)
    /\ sessionInitialized
    /\ Set(Park(guessSong(Happened(Cur), m)))

NextGate ==
    \/ PlayStartRound
    \/ StartRoundAfterDelay
    \/ StartRoundAfterReload
    \/ StartRoundAfterUnique
    \/ StartRoundAfterVoice
    \/ \E m \in Messages : GuessMessage(m)
    \/ GuessAfterDelay
    \/ GuessAfterDb
    \/ EndRoundAfterScore
    \/ EndRoundAfterMessage
    \/ EndSessionAfterCommit
    \/ EndSessionAfterGuild

SpecGate == InitGate /\ [][NextGate]_vars

\* the guess of context m passes the gate of guessSong in the current state
GateOpen(m) ==
    /\ connection
    /\ Len(endListeners) >= 1
    /\ round # NoRound
    /\ m.voice
    /\ m.text
    /\ gameType = "elimination" => (m.author \in DOMAIN score /\ score[m.author] > 0)
    /\ gameType = "teams" => m.author \in DOMAIN score

\* C18: a guess is processed only when the connection exists and has an end
\* listener, a round is active and the guesser is eligible; a guess that
\* fails one of these leaves the round, the scoreboard, the streak,
\* correctGuesses and roundsPlayed as they were.
C18_GuessGate ==
    [][\A m \in Messages :
          (GuessMessage(m) /\ ~GateOpen(m)) =>
              UNCHANGED <<round, rFinished, rCorrect, rMsg, score, lastGuesser,
                          correctGuesses, roundsPlayed, tasks>>]_vars

\* the guess of an eliminated player was ignored while a round was active
\* and the connection had its end listener, after the guess of another
\* player was credited
C18_Witness ==
    /\ gameType = "elimination"
    /\ round # NoRound
    /\ connection
    /\ Len(endListeners) >= 1
    /\ \E m \in ignored :
          /\ m.voice /\ m.text
          /\ m.author \in DOMAIN score
          /\ score[m.author] = 0
          /\ rCorrect[round] # <<>>
          /\ \A k \in DOMAIN rCorrect[round] : rCorrect[round][k] # m.author

(* ---------------- multiple choice interactions ---------------- *)

\* the custom ids of the answer buttons that were sent: GameSession.startRound
\* creates fresh ids for the correct answer and the incorrect answers of
\* its round
ButtonIDs == [round : {k \in DOMAIN rButtons : rButtons[k]}, correct : BOOLEAN]

\* GameRound.isValidInteraction: the id is one of the ids of the round
isValidInteraction(r, id) == id.round = r

\* GameRound.isCorrectInteractionAnswer
isCorrectInteractionAnswer(r, id) == id.round = r /\ id.correct

\* Session.handleInSessionInteractionFailures: whether the interaction is
\* handled further
handleInSessionInteractionFailures(s, id, inVoice) ==
    IF s.round = NoRound THEN FALSE
    ELSE IF ~inVoice THEN FALSE
    ELSE isValidInteraction(s.round, id)

\* GameSession.handleComponentInteraction of member u for the button id, up
\* to its await of the guild preference
handleComponentInteraction(s, u, id, inVoice) ==
    IF s.round = NoRound THEN s
    ELSE IF ~handleInSessionInteractionFailures(s, id, inVoice) THEN s
    ELSE LET r == s.round
             m == [author |-> u, voice |-> inVoice, text |-> TRUE,
                   guess |-> 0, via |-> id.round]
         IN IF u \in s.rWrong[r] \/ ~guessEligible(s, m) THEN s
            ELSE IF ~isCorrectInteractionAnswer(r, id)
                 THEN guessSong([s EXCEPT !.rWrong[r] = @ \cup {u}], m)
                 ELSE [s EXCEPT !.cur = [Blank EXCEPT !.kind = "interaction",
                                                      !.pc = "hi_pref",
                                                      !.round = r,
                                                      !.user = u]]

\* a member presses an answer button that was sent
Interaction(u, id, inVoice) ==
    /\ MayHappen(MaxEvents)
    /\ id \in ButtonIDs
    /\ Set(Park(handleComponentInteraction(Happened(Cur), u, id, inVoice)))

\* handleComponentInteraction resumes after the guild preference and calls
\* guessSong with the answer of the round it captured
InteractionAfterPreference ==
    \E t \in At("interaction", "hi_pref") :
        \E inVoice \in BOOLEAN :
            Set(Park(guessSong([Resume(t) EXCEPT !.cur = Blank],
                               [author |-> t.user, voice |-> inVoice,
                                text |-> TRUE, guess |-> rSong[t.round],
                                via |-> t.round])))

\* GameSession.startRound resumes after getMultipleChoiceOptions and sends
\* the answer buttons of the round it kept
StartRoundAfterChoices ==
    \E t \in At("start", "sr_choices") :
        Set([Resume(t) EXCEPT !.rButtons[t.round] = TRUE, !.cur = Blank])

\* a classic and an elimination session in multiple choice mode
InitInteraction ==
    /\ \E gt \in GameTypes : InitSession(gt, StartLives, Users)
    /\ poolSize = PoolSize
    /\ faults = {}
    /\ multipleChoice = TRUE
    /\ guessTimeoutSet = FALSE
    /\ seekBeginning = TRUE
    /\ durationSet = FALSE

NextInteraction ==
    \/ PlayStartRound
    \/ StartRoundAfterDelay
    \/ StartRoundAfterReload
    \/ StartRoundAfterUnique
    \/ StartRoundAfterVoice
    \/ StartRoundAfterChoices
    \/ \E u \in Users : \E id \in ButtonIDs : \E inVoice \in BOOLEAN :
          Interaction(u, id, inVoice)
    \/ InteractionAfterPreference
    \/ \E u \in Users : GuessSong(u)
    \/ GuessAfterDelay
    \/ GuessAfterDb
    \/ EndRoundAfterScore
    \/ EndRoundAfterMessage
    \/ EndSessionAfterCommit
    \/ EndSessionAfterGuild

SpecInteraction == InitInteraction /\ [][NextInteraction]_vars

\* C19: an interaction with a button of a previous round never credits its
\* user in the current round, also when the round changes while the handler
\* of the interaction is suspended.
C19_NoStaleCredit == staleCredits = {}

(* ---------------- startRound calls that overlap ---------------- *)

\* a classic game of one player with a guess timeout and a pool of
\* OverlapPool songs
InitOverlap ==
    /\ InitSession("classic", StartLives, {"A"})
    /\ poolSize = OverlapPool
    /\ faults = {}
    /\ multipleChoice = FALSE
    /\ guessTimeoutSet = TRUE
    /\ seekBeginning = TRUE
    /\ durationSet = FALSE

\* the player guesses the rounds and the stream of a song ends, OverlapEvents
\* events in all, for at most OverlapRounds rounds
NextOverlap ==
    \/ PlayStartRound
    \/ StartRoundAfterDelayIn(OverlapRounds)
    \/ StartRoundAfterReloadIn(OverlapRounds)
    \/ StartRoundAfterUniqueIn(OverlapRounds)
    \/ StartRoundAfterVoice
    \/ GuessSongIn("A", OverlapEvents)
    \/ GuessAfterDelay
    \/ GuessAfterDb
    \/ EndRoundAfterScore
    \/ EndRoundAfterMessage
    \/ StreamEndIn(OverlapEvents)

SpecOverlap == InitOverlap /\ [][NextOverlap]_vars

\* C20: a session has at most one armed guess timeout, and a round is
\* attached only to a session that has no round: a startRound call made
\* while a round is active, or overlapping another startRound call, creates
\* no second round.
C20_OneRoundAtATime ==
    /\ [](Cardinality(timers) <= 1)
    /\ [][(round' # round /\ round' # NoRound) => round = NoRound]_vars

(* ---------------- the guessing streak ---------------- *)

RECURSIVE EndedRounds(_)
\* the rounds that calls of endRound have found attached, each once, in the
\* order in which they were first ended
EndedRounds(es) ==
    IF es = <<>> THEN <<>>
    ELSE LET front == EndedRounds(SubSeq(es, 1, Len(es) - 1))
             r == es[Len(es)].round
         IN IF \E k \in DOMAIN front : front[k] = r THEN front
            ELSE Append(front, r)

\* how round r ended: the user the round was credited to, or "none" when
\* it was ended without credit, or "error" when only the stream error ended it
Outcome(r) ==
    LET credits == {k \in DOMAIN ends : ends[k].round = r /\ ends[k].res = "correct"}
    IN IF credits # {}
       THEN ends[CHOOSE k \in credits : \A j \in credits : k <= j].user
       ELSE IF \E k \in DOMAIN ends : ends[k].round = r /\ ends[k].res = "none"
            THEN "none" ELSE "error"

RECURSIVE StreakOf(_)
\* the streak that GameSession.endRound keeps, over the outcomes of the
\* rounds: one more for the same winner, 1 for another winner, nothing after
\* an uncredited round, unchanged by a stream error
StreakOf(os) ==
    IF os = <<>> THEN NoGuesser
    ELSE LET prev == StreakOf(SubSeq(os, 1, Len(os) - 1))
             o == os[Len(os)]
         IN CASE o = "error" -> prev
              [] o = "none" -> NoGuesser
              [] OTHER -> IF prev.userID = o
                          THEN [prev EXCEPT !.streak = @ + 1]
                          ELSE [userID |-> o, streak |-> 1]

\* C21: lastGuesser is the streak of the rounds ended so far, each round
\* counted once: the number of consecutive credited rounds that the same
\* first correct guesser won, 1 after a win of another user, nothing after a
\* round that ended without credit, and unchanged by a round that a stream
\* error ended.
C21_StreakCountsRounds ==
    LET rs == EndedRounds(ends)
    IN lastGuesser = StreakOf([k \in DOMAIN rs |-> Outcome(rs[k])])

(* ---------------- the listeners of a play invocation ---------------- *)

\* the listeners of a kind that do something when the event is emitted
Effective(ls) == {k \in DOMAIN ls : ls[k] # 0}

\* C22: the connection has at most one effective end listener and at most
\* one effective error listener at a time, whatever the number of rounds
\* played on it, and the end listener of a play invocation has run exactly
\* once when the connection emitted end during it, however often it did,
\* and not at all otherwise.
C22_OneEndHandling ==
    /\ Cardinality(Effective(endListeners)) <= 1
    /\ Cardinality(Effective(errorListeners)) <= 1
    /\ \A p \in DOMAIN endRuns :
          endRuns[p] = (IF endEmits[p] >= 1 THEN 1 ELSE 0)

\* C22 witness: a second round is played on the connection, and the
\* connection emitted end twice during one play invocation, whose listener
\* ran once
C22_Witness ==
    /\ nPlays >= 2
    /\ \E p \in DOMAIN endRuns : endEmits[p] >= 2 /\ endRuns[p] = 1

LiveConfigs ==
    {[gameType |-> c.gameType, guessTimeoutSet |-> c.guessTimeoutSet,
      seekBeginning |-> c.seekBeginning, durationSet |-> c.durationSet,
      multipleChoice |-> FALSE] : c \in Configs}
    \cup {[gameType |-> "classic", guessTimeoutSet |-> FALSE,
            seekBeginning |-> TRUE, durationSet |-> FALSE,
            multipleChoice |-> TRUE]}

\* a session whose pool has a song and whose voice channel has members
InitLive ==
    \E c \in LiveConfigs :
        /\ InitSession(c.gameType, StartLives, Users)
        /\ poolSize = PoolSize
        /\ faults = {}
        /\ multipleChoice = c.multipleChoice
        /\ guessTimeoutSet = c.guessTimeoutSet
        /\ seekBeginning = c.seekBeginning
        /\ durationSet = c.durationSet

\* the continuations of the suspended handlers: what the event loop runs
\* when the promise a handler awaits has settled
Resumptions ==
    \/ StartRoundAfterDelay
    \/ StartRoundAfterReload
    \/ StartRoundAfterUnique
    \/ StartRoundAfterVoice
    \/ StartRoundAfterChoices
    \/ PlaySongAfterSeek
    \/ InteractionAfterPreference
    \/ GuessAfterDelay
    \/ GuessAfterDb
    \/ EndRoundAfterScore
    \/ EndRoundAfterMessage
    \/ ErrorAfterMessage
    \/ EndSessionAfterCommit
    \/ EndSessionAfterGuild

\* what the members, the timers, the voice connection and the commands do
Events ==
    \/ PlayStartRound
    \/ \E u \in Users : GuessSong(u)
    \/ \E u \in Users : \E id \in ButtonIDs : \E inVoice \in BOOLEAN :
          Interaction(u, id, inVoice)
    \/ TimerFire
    \/ StreamEnd
    \/ StreamError
    \/ CallEndSession
    \/ DurationElapses

NextLive == Resumptions \/ Events

\* ENABLED <<Resumptions>>_vars as a state predicate: a handler is suspended
\* at an await (every continuation changes tasks); a startRound call before
\* its round is attached continues only within the bound on the rounds
ResumptionReady ==
    \E t \in BagToSet(tasks) :
        t.pc \in {"sr_delay", "sr_reload", "sr_unique"} => MayStart

\* WF_vars(Resumptions), written out with ResumptionReady for ENABLED: every
\* promise a handler awaits settles and the event loop runs its continuation
ResumptionsRun == []<>(~ResumptionReady) \/ []<><<Resumptions>>_vars

\* nothing is assumed of the events
SpecLive == InitLive /\ [][NextLive]_vars /\ ResumptionsRun

\* a handler that will call startRound, or a startRound call that has not
\* attached its round yet
StartScheduled ==
    \E t \in BagToSet(tasks) :
        \/ t.kind \in {"guess", "timer", "end", "wrong", "error"}
        \/ t.kind = "start" /\ t.pc \in {"sr_delay", "sr_reload", "sr_unique"}

\* C24: in a started session that is not finished, whose pool and voice
\* channel are not empty, a state without a round has a startRound call
\* scheduled, and it leads to a state with a round or to a finished session
\* (for the rounds before the bound on the number of rounds).
C24_RoundEndLeadsToRound ==
    /\ []((sessionInitialized /\ ~finished /\ round = NoRound) => StartScheduled)
    /\ (sessionInitialized /\ ~finished /\ round = NoRound
            /\ Len(rFinished) < MaxRounds)
         ~> (round # NoRound \/ finished)

\* C24 witness: in a multiple choice game every member chose a wrong answer
\* in round 1, which ended without credit, and round 2 is attached in the
\* unfinished session
C24_Witness ==
    /\ multipleChoice
    /\ ~finished
    /\ round = 2
    /\ rWrong[1] = Users
    /\ \E k \in DOMAIN ends : ends[k].round = 1 /\ ends[k].res = "none"

(* ---------------- the duration limit ---------------- *)

DurationEvents == 4

\* a classic game of one player with a duration limit and a pool of
\* OverlapPool songs
InitDuration ==
    /\ InitSession("classic", StartLives, {"A"})
    /\ poolSize = OverlapPool
    /\ faults = {}
    /\ multipleChoice = FALSE
    /\ guessTimeoutSet = FALSE
    /\ seekBeginning = TRUE
    /\ durationSet = TRUE

\* Session.getRemainingDuration turns negative: the clock passes the limit
ClockPassesLimit ==
    /\ durationSet
    /\ ~durationElapsed
    /\ sessionInitialized
    /\ Set([Cur EXCEPT !.durationElapsed = TRUE])

\* the player guesses the rounds and the stream of a song ends,
\* DurationEvents events in all, while the clock runs
NextDuration ==
    \/ PlayStartRound
    \/ StartRoundAfterDelayIn(OverlapRounds)
    \/ StartRoundAfterReloadIn(OverlapRounds)
    \/ StartRoundAfterUniqueIn(OverlapRounds)
    \/ StartRoundAfterVoice
    \/ GuessSongIn("A", DurationEvents)
    \/ GuessAfterDelay
    \/ GuessAfterDb
    \/ EndRoundAfterScore
    \/ EndRoundAfterMessage
    \/ StreamEndIn(DurationEvents)
    \/ ClockPassesLimit
    \/ EndSessionAfterCommit
    \/ EndSessionAfterGuild

SpecDuration == InitDuration /\ [][NextDuration]_vars

\* C25: a step that detaches a round while the configured duration has
\* elapsed leaves the session finished, and once Session.endRound has ended
\* the session for its duration no step attaches a new round.
C25_DurationEndsSession ==
    /\ [][(round # NoRound /\ round' = NoRound /\ durationSet /\ durationElapsed)
            => finished']_vars
    /\ [][durationEnds >= 1 => Len(rFinished') = Len(rFinished)]_vars

\* the handlers that are inside endRound
InEndRound == {t \in BagToSet(tasks) : t.pc \in {"er_score", "er_msg"}}

\* C26: a step in which endRound is called while no round is attached
\* changes neither roundsPlayed, the bookmark ring, the streak, the
\* scoreboard, the lives lost nor the song statistics, ends no round,
\* announces none, and leaves no handler inside endRound that was not
\* there before.
C26_EndRoundNoop ==
    [][noops' # noops =>
          /\ UNCHANGED <<roundsPlayed, songMessageIDs, lastGuesser, score, lost,
                         firstPlace, songStats, wins, ends, rMsg, round>>
          /\ InEndRound' \subseteq InEndRound]_vars

\* C26 witness: a round was ended by one handler, the endRound of another
\* found no round, and the streak of the winner stands
C26_Witness ==
    /\ noops >= 1
    /\ ends # <<>>
    /\ lastGuesser # NoGuesser

(* ---------------- the bookmark ring ---------------- *)

RingRounds == 6

\* a classic game of one player without guess timeout, whose pool has a
\* song for every round
InitRing ==
    /\ InitSession("classic", StartLives, {"A"})
    /\ poolSize = RingRounds
    /\ faults = {}
    /\ multipleChoice = FALSE
    /\ guessTimeoutSet = FALSE
    /\ seekBeginning = TRUE
    /\ durationSet = FALSE

\* no handler is suspended: the rounds are played one after the other
Quiet == tasks = EmptyBag

\* every round is guessed by the player, or its stream ends, or its stream
\* fails (a round that is not announced), for RingRounds rounds
NextRing ==
    \/ PlayStartRound
    \/ StartRoundAfterDelayIn(RingRounds)
    \/ StartRoundAfterReloadIn(RingRounds)
    \/ StartRoundAfterVoice
    \/ Quiet /\ GuessSongIn("A", RingRounds)
    \/ Quiet /\ StreamEndIn(RingRounds)
    \/ Quiet /\ StreamErrorIn(RingRounds)
    \/ GuessAfterDelay
    \/ GuessAfterDb
    \/ EndRoundAfterScore
    \/ EndRoundAfterMessage
    \/ ErrorAfterMessage

SpecRing == InitRing /\ [][NextRing]_vars

\* Session.getSongFromMessageID for the round message of round m: the song
\* of the first entry with that message, 0 (null) when there is none
getSongFromMessageID(m) ==
    LET found == {k \in DOMAIN songMessageIDs : songMessageIDs[k] = m}
    IN IF found = {} THEN 0
       ELSE rSong[songMessageIDs[CHOOSE k \in found : \A j \in found : k <= j]]

\* the rounds that have ended with a round message
Announced == {r \in DOMAIN rMsg : rMsg[r] /\ r # round}

\* the last BOOKMARK_MESSAGE_SIZE of them
LastAnnounced ==
    {r \in Announced :
        Cardinality({q \in Announced : q > r}) < BOOKMARK_MESSAGE_SIZE}

\* C27: every round that ended with a round message has one entry in the
\* bookmark ring until it is evicted, and the song of each of the last
\* BOOKMARK_MESSAGE_SIZE announced rounds is found by its message.
C27_LastAnnouncedRetrievable ==
    /\ \A r \in DOMAIN rMsg :
          Cardinality({k \in DOMAIN songMessageIDs : songMessageIDs[k] = r}) <= 1
    /\ \A r \in LastAnnounced : getSongFromMessageID(r) = rSong[r]

\* C28: the bookmark ring never holds more than BOOKMARK_MESSAGE_SIZE
\* entries, and entries leave it only from its front, oldest first, in a
\* step in which the ring reached its capacity.
C28_RingBounded ==
    /\ [](Len(songMessageIDs) <= BOOKMARK_MESSAGE_SIZE)
    /\ [][\E k \in 0..Len(songMessageIDs) : \E n \in 0..2 :
            /\ Len(songMessageIDs') = Len(songMessageIDs) - k + n
            /\ \A i \in 1..(Len(songMessageIDs) - k) :
                  songMessageIDs'[i] = songMessageIDs[i + k]
            /\ k > 0 => Len(songMessageIDs) + n >= BOOKMARK_MESSAGE_SIZE]_vars

\* C28 witness: the ring is full and the entries of round 1 have left it
C28_Witness ==
    /\ Len(songMessageIDs) = BOOKMARK_MESSAGE_SIZE
    /\ rMsg[1]
    /\ \A k \in DOMAIN songMessageIDs : songMessageIDs[k] # 1

(* ---------------- multiple choice: everybody answered wrong ---------------- *)

\* a classic multiple choice game whose songs are not played from their
\* beginning
InitChoice ==
    /\ InitSession("classic", StartLives, Users)
    /\ poolSize = PoolSize
    /\ faults = {}
    /\ multipleChoice = TRUE
    /\ guessTimeoutSet = FALSE
    /\ seekBeginning = FALSE
    /\ durationSet = FALSE

\* the members press answer buttons and send guesses while the rounds start
NextChoice ==
    \/ PlayStartRound
    \/ StartRoundAfterDelay
    \/ StartRoundAfterReload
    \/ StartRoundAfterUnique
    \/ StartRoundAfterVoice
    \/ StartRoundAfterChoices
    \/ PlaySongAfterSeek
    \/ \E u \in Users : \E id \in ButtonIDs : Interaction(u, id, TRUE)
    \/ InteractionAfterPreference
    \/ \E u \in Users : GuessSong(u)
    \/ GuessAfterDelay
    \/ GuessAfterDb
    \/ EndRoundAfterScore
    \/ EndRoundAfterMessage

SpecChoice == InitChoice /\ [][NextChoice]_vars

\* C29: in multiple choice mode, a round in which every member of the
\* voice channel has answered wrong is being ended without a winner by the
\* guess handler that will start the next round, and a wrong answer that
\* leaves a member who has not answered wrong ends no round.
C29_AllWrongEndsRound ==
    /\ [](multipleChoice /\ round # NoRound /\ Users \subseteq rWrong[round]
            => \E t \in InEndRound : t.er = round /\ t.res = "none")
    /\ [][(round # NoRound /\ rWrong'[round] # rWrong[round]
             /\ ~(Users \subseteq rWrong'[round]))
            => ends' = ends]_vars

\* whether u is among the guessers gs
Among(u, gs) == \E k \in DOMAIN gs : gs[k] = u

\* C30: in multiple choice mode no step adds to the correct guessers of a
\* round a member who has answered wrong in that round, whether the member
\* presses the correct button or sends the answer.
C30_WrongNeverCorrect ==
    [][multipleChoice =>
         \A r \in DOMAIN rCorrect : \A u \in rWrong[r] :
             Among(u, rCorrect'[r]) => Among(u, rCorrect[r])]_vars

\* C30 witness: a member who had answered wrong in the current round gave
\* the right answer, which was refused, and is no correct guesser of it
C30_Witness ==
    /\ multipleChoice
    /\ \E b \in blocked :
          /\ b.user \in rWrong[b.round]
          /\ ~Among(b.user, rCorrect[b.round])

(* ---------------- elimination: lives and eligibility ---------------- *)

\* how often u is among the guessers gs
Times(u, gs) == Cardinality({k \in DOMAIN gs : gs[k] = u})

\* C31: in an elimination game the lives of every player stay between 0
\* and the starting lives and never increase, and a player who has no life
\* left is eliminated for the rest of the game: no step adds the player to
\* the correct guessers of a round, and no endRound credits a round to the
\* player.
C31_EliminatedStaysOut ==
    /\ [](gameType = "elimination" =>
            \A p \in DOMAIN score : 0 <= score[p] /\ score[p] <= startingLives)
    /\ [][gameType = "elimination" =>
            \A p \in DOMAIN score :
                /\ score'[p] <= score[p]
                /\ isEliminated(score[p]) =>
                     /\ \A r \in DOMAIN rCorrect :
                           Times(p, rCorrect'[r]) = Times(p, rCorrect[r])
                     /\ \A r \in DOMAIN wins :
                           Times(p, wins'[r]) = Times(p, wins[r])]_vars

\* C32: a player who joins an elimination game in progress is added with
\* the lives of the weakest player then on the scoreboard (the smallest
\* number of lives, also when several players tie for it), and the players
\* present when the session is created start with the configured lives.
C32_JoinerGetsWeakestLives ==
    /\ \A p \in DOMAIN score : score[p] = startingLives
    /\ [][\A u \in ElimPlayers :
            (u \notin DOMAIN score /\ u \in DOMAIN score') =>
                score'[u] \in getLivesOfWeakestPlayer(score)]_vars

(* ---------------- the owner of a session ---------------- *)

\* the members who can be in the voice channel of the session
Members == {"A", "B", "C"}

\* a game session or a listening session created by A; the scoreboard of a
\* game session is filled later (syncAllVoiceMembers awaits two lookups for
\* each member, and the players of a teams game join by command)
InitOwner ==
    /\ InitCommon("classic", StartLives, {})
    /\ owner = "A"
    /\ voiceMembers = {"A"}
    /\ playerIDs = <<>>
    /\ music \in BOOLEAN
    /\ correctGuessers = <<>>
    /\ multiGuess = TRUE
    /\ songCount = 0
    /\ playerStats = [exp |-> 0, level |-> 1]
    /\ statsBefore = [exp |-> 0, level |-> 1]
    /\ guessTimeoutSet = FALSE
    /\ seekBeginning = TRUE
    /\ durationSet = FALSE
    /\ poolSize = PoolSize
    /\ faults = {}
    /\ multipleChoice = FALSE

\* a member enters or leaves the voice channel
VoiceJoin(u) ==
    /\ u \notin voiceMembers
    /\ Set([Cur EXCEPT !.voiceMembers = @ \cup {u}])

VoiceLeave(u) ==
    /\ u \in voiceMembers
    /\ Set([Cur EXCEPT !.voiceMembers = @ \ {u}])

\* scoreboard.addPlayer for a member who is not on the scoreboard
OwnerAddPlayer(u) ==
    /\ ~music
    /\ u \notin {playerIDs[k] : k \in DOMAIN playerIDs}
    /\ Set([Cur EXCEPT !.playerIDs = Append(@, u)])

\* the session ends
OwnerEndSession ==
    /\ ~finished
    /\ Set([Cur EXCEPT !.finished = TRUE])

\* the participants of the scoreboard who are in the voice channel
participantsInVC ==
    SelectSeq(playerIDs, LAMBDA p : p \in voiceMembers)

\* GameSession.updateOwner: participantsInVC[0], which is undefined when no
\* participant is in the voice channel
GameUpdateOwner ==
    /\ ~music
    /\ ~finished
    /\ ~(owner \in voiceMembers \/ voiceMembers = {})
    /\ LET newOwnerID == IF participantsInVC = <<>> THEN "undefined"
                         ELSE participantsInVC[1]
       IN /\ newOwnerID # owner
          /\ Set([Cur EXCEPT !.owner = newOwnerID])

\* MusicSession.updateOwner: chooseRandom(voiceMembers)
MusicUpdateOwner ==
    /\ music
    /\ ~finished
    /\ ~(owner \in voiceMembers \/ voiceMembers = {})
    /\ \E m \in voiceMembers : Set([Cur EXCEPT !.owner = m])

NextOwner ==
    \/ \E u \in Members : VoiceJoin(u)
    \/ \E u \in Members : VoiceLeave(u)
    \/ \E u \in Members : OwnerAddPlayer(u)
    \/ OwnerEndSession
    \/ GameUpdateOwner
    \/ MusicUpdateOwner

SpecOwner == InitOwner /\ [][NextOwner]_vars

\* C33: the owner changes only while the session is not finished, the owner
\* is not in the voice channel and some member is; the new owner is a member
\* in the voice channel, in a game session the first participant of the
\* scoreboard who is still there.
C33_NewOwnerIsPresent ==
    [][owner' # owner =>
          /\ ~finished
          /\ owner \notin voiceMembers
          /\ voiceMembers # {}
          /\ owner' \in voiceMembers
          /\ ~music => /\ participantsInVC # <<>>
                       /\ owner' = participantsInVC[1]]_vars

(* ---------------- the points of the guessers of a round ---------------- *)

\* the points round.checkGuess awards for a right guess, in tenths of a
\* point: a whole point, or a fraction of a point
PointValues == {2, 10}

\* the orders in which one, two or three members guess right
GuessOrders ==
    {q \in UNION {[1..n -> Members] : n \in 1..3} :
        \A i, j \in DOMAIN q : i # j => q[i] # q[j]}

\* a round with its correct guessers, each with the points checkGuess gave
InitPoints ==
    /\ InitCommon("classic", StartLives, {})
    /\ owner = "A"
    /\ voiceMembers = Members
    /\ playerIDs = <<>>
    /\ music = FALSE
    /\ multiGuess = TRUE
    /\ songCount = 0
    /\ playerStats = [exp |-> 0, level |-> 1]
    /\ statsBefore = [exp |-> 0, level |-> 1]
    /\ \E q \in GuessOrders :
         \E pts \in [DOMAIN q -> PointValues] :
            correctGuessers = [k \in DOMAIN q |->
                                  [id |-> q[k], pointsAwarded |-> pts[k]]]
    /\ guessTimeoutSet = FALSE
    /\ seekBeginning = TRUE
    /\ durationSet = FALSE
    /\ poolSize = PoolSize
    /\ faults = {}
    /\ multipleChoice = FALSE

\* pointsEarned of GameSession.updateScoreboard for the guesser at index
\* idx (from 0), in twentieths of a point: pointsAwarded, or pointsAwarded / 2
pointsEarned(idx, pointsAwarded) ==
    IF idx = 0 THEN 2 * pointsAwarded ELSE pointsAwarded

\* GameSession.updateScoreboard: the round results of the correct guessers
UpdateScoreboardPoints ==
    /\ playerRoundResults = <<>>
    /\ Set([Cur EXCEPT !.playerRoundResults =
              [k \in DOMAIN correctGuessers |->
                 [id |-> correctGuessers[k].id,
                  pointsEarned |-> pointsEarned(k - 1, correctGuessers[k].pointsAwarded)]]])

NextPoints == UpdateScoreboardPoints

SpecPoints == InitPoints /\ [][NextPoints]_vars

\* C34: the first correct guesser of a round is credited the points awarded,
\* every later guesser half of the points awarded, and so the first guesser
\* is credited at least as much as the second.
C34_FirstCreditedMost ==
    playerRoundResults # <<>> =>
        /\ \A k \in DOMAIN playerRoundResults :
              playerRoundResults[k].pointsEarned =
                 IF k = 1 THEN 2 * correctGuessers[k].pointsAwarded
                 ELSE correctGuessers[k].pointsAwarded
        /\ Len(playerRoundResults) >= 2 =>
              playerRoundResults[1].pointsEarned >= playerRoundResults[2].pointsEarned

(* ---------------- the grace delay of a correct guess ---------------- *)

\* a classic game with the multi-guess option on or off, and one or two
\* members in the voice channel
InitMulti ==
    /\ InitCommon("classic", StartLives, Users)
    /\ owner = "A"
    /\ voiceMembers \in {{"A"}, Users}
    /\ playerIDs = <<>>
    /\ music = FALSE
    /\ correctGuessers = <<>>
    /\ multiGuess \in BOOLEAN
    /\ songCount = 0
    /\ playerStats = [exp |-> 0, level |-> 1]
    /\ statsBefore = [exp |-> 0, level |-> 1]
    /\ poolSize = PoolSize
    /\ faults = {}
    /\ multipleChoice = FALSE
    /\ guessTimeoutSet = FALSE
    /\ seekBeginning = TRUE
    /\ durationSet = FALSE

\* GameSession.multiguessDelayIsActive
multiguessDelayIsActive ==
    LET playerIsAlone == Cardinality(voiceMembers) = 1
    IN multiGuess /\ ~playerIsAlone

\* the members in the voice channel guess the song; guessSong waits for
\* delay(MULTIGUESS_DELAY) or delay(0) before it ends the round
NextMulti ==
    \/ PlayStartRound
    \/ StartRoundAfterDelay
    \/ StartRoundAfterReload
    \/ StartRoundAfterVoice
    \/ \E u \in voiceMembers : GuessSong(u)
    \/ GuessAfterDelay
    \/ GuessAfterDb
    \/ EndRoundAfterScore
    \/ EndRoundAfterMessage

SpecMulti == InitMulti /\ [][NextMulti]_vars

\* C35: with the multi-guess option off, or a guesser alone in the voice
\* channel, a round credits one correct guesser only; several guessers are
\* credited for a round only under an active grace delay.
C35_OneCreditWithoutDelay ==
    [][Cardinality({p \in DOMAIN score : score'[p] # score[p]}) > 1
          => multiguessDelayIsActive]_vars

(* ---------------- the skip vote of a listening session ---------------- *)

\* a listening session of A with one to three members in the voice channel
InitSkip ==
    /\ InitCommon("classic", StartLives, {})
    /\ owner = "A"
    /\ voiceMembers \in {m \in SUBSET Members : "A" \in m}
    /\ playerIDs = <<>>
    /\ music = TRUE
    /\ correctGuessers = <<>>
    /\ multiGuess = FALSE
    /\ songCount = 0
    /\ playerStats = [exp |-> 0, level |-> 1]
    /\ statsBefore = [exp |-> 0, level |-> 1]
    /\ poolSize = PoolSize
    /\ faults = {}
    /\ multipleChoice = FALSE
    /\ guessTimeoutSet = FALSE
    /\ seekBeginning = TRUE
    /\ durationSet = FALSE

\* getMajorityCount: floor(participants * 0.5) + 1
getMajorityCount == (Cardinality(voiceMembers) \div 2) + 1

\* isSkipMajority: the skippers of the current round are a majority
isSkipMajority(s) == Cardinality(s.skippers[s.round]) >= getMajorityCount

\* MusicSession.startRound: a listening round with no skipper
SkipStartRound ==
    /\ round = NoRound
    /\ ~finished
    /\ Len(skippers) < MaxRounds
    /\ Set([Cur EXCEPT !.round = Len(skippers) + 1,
                       !.skippers = Append(@, {})])

\* the stream of the song ends: the round is over
SkipStreamEnd ==
    /\ round # NoRound
    /\ Set([Cur EXCEPT !.round = NoRound, !.roundsPlayed = @ + 1])

\* MusicSession.handleButtonInteraction for the skip button of round b,
\* pressed by member u: a member outside the voice channel or a button of
\* another round is refused; the vote is counted, and with a majority the
\* handler awaits round.interactionSuccessfulSkip()
SkipVote(u, b) ==
    /\ MayHappen(MaxEvents)
    /\ round # NoRound
    /\ u \in voiceMembers
    /\ b = round
    /\ LET s == [Happened(Cur) EXCEPT !.skippers[round] = @ \cup {u}]
       IN IF isSkipMajority(s)
          THEN Set(Spawn(s, [Blank EXCEPT !.kind = "skip", !.pc = "sk_mark",
                                          !.round = round,
                                          !.delta = getMajorityCount]))
          ELSE Set(s)

\* the handler resumes and reads this.round.getSkipCount() for the
\* acknowledgement, which throws when no round is attached; it then awaits
\* the acknowledgement and getGuildPreference
SkipAfterMark ==
    \E t \in At("skip", "sk_mark") :
        IF round = NoRound THEN Set(Resume(t))
        ELSE Set(Park(SetPc(Resume(t), "sk_ack")))

\* skipSong(messageContext, session, guildPreference): the round of the
\* session is ended as skipped, and the next one is started
SkipAfterAck ==
    \E t \in At("skip", "sk_ack") :
        IF round = NoRound THEN Set(Resume(t))
        ELSE Set([Resume(t) EXCEPT !.cur = Blank,
                                   !.skipEnds = @ \cup {[round |-> round, majority |-> t.delta]},
                                   !.round = NoRound,
                                   !.roundsPlayed = @ + 1])

NextSkip ==
    \/ SkipStartRound
    \/ SkipStreamEnd
    \/ \E u \in Members : \E b \in 1..MaxRounds : SkipVote(u, b)
    \/ SkipAfterMark
    \/ SkipAfterAck
    \/ \E u \in Members : VoiceJoin(u)
    \/ \E u \in Members : VoiceLeave(u)

SpecSkip == InitSkip /\ [][NextSkip]_vars

\* C36: in a listening session a round is ended by the skip vote only when
\* its distinct voters are a majority, floor(n/2)+1 of the n members in the
\* voice channel, and a vote that leaves the voters below the majority
\* leaves the round active.
C36_SkipNeedsMajority ==
    /\ [](\A e \in skipEnds : Cardinality(skippers[e.round]) >= e.majority)
    /\ [][\A r \in DOMAIN skippers :
             (skippers'[r] # skippers[r]
                /\ Cardinality(skippers'[r]) < getMajorityCount)
             => round' = round]_vars

(* ---------------- the base EXP of a round ---------------- *)

\* the pools have 0, 500, ..., MaxSongSteps * 500 songs, and Math.random()
\* is one of 0, 1/RandSteps, ..., (RandSteps - 1)/RandSteps
MaxSongSteps == 12
RandSteps == 10

\* fixed point: an EXP value is kept in hundredths, exp(x) in thousandths

\* Math.exp(1 - 0.0005 * (count - 1500)) in thousandths, for a count of k
\* steps of 500 songs: exp(1.75) = 5.755 times exp(-0.25) = 0.779 per step
MathExp(k) ==
    LET step[i \in 0..k] == IF i = 0 THEN 5755 ELSE (step[i - 1] * 779) \div 1000
    IN step[k]

\* expBase of calculateBaseExp, in hundredths of an EXP
expBase(count) ==
    (2000 * 100 * 1000) \div (1000 + MathExp(count \div 500))

\* expJitter of calculateBaseExp with a factor of 10%
expJitterWide(base, r1, r2) ==
    LET jitter == (base * 10 * r1) \div (100 * RandSteps)
    IN jitter * (IF 2 * r2 >= RandSteps THEN 1 ELSE -1)

\* expJitter of calculateBaseExp for the random draws r1 / RandSteps and
\* r2 / RandSteps: expBase * (0.05 * Math.random()), negated unless
\* Math.round(Math.random()) is 1
expJitter(base, r1, r2) ==
    LET jitter == (base * 5 * r1) \div (100 * RandSteps)
    IN jitter * (IF 2 * r2 >= RandSteps THEN 1 ELSE -1)

\* a round is prepared for a pool of some size
InitExp ==
    /\ InitCommon("classic", StartLives, {"A"})
    /\ owner = "A"
    /\ voiceMembers = {"A"}
    /\ playerIDs = <<>>
    /\ music = FALSE
    /\ correctGuessers = <<>>
    /\ multiGuess = TRUE
    /\ songCount \in {k * 500 : k \in 0..MaxSongSteps}
    /\ playerStats = [exp |-> 0, level |-> 1]
    /\ statsBefore = [exp |-> 0, level |-> 1]
    /\ poolSize = PoolSize
    /\ faults = {}
    /\ multipleChoice = FALSE
    /\ guessTimeoutSet = FALSE
    /\ seekBeginning = TRUE
    /\ durationSet = FALSE

\* GameSession.prepareRound: gameRound.setBaseExpReward(calculateBaseExp())
CalculateBaseExp ==
    /\ baseExpReward = 0
    /\ \E r1, r2 \in 0..(RandSteps - 1) :
         Set([Cur EXCEPT !.baseExpReward =
                 expBase(songCount) + expJitter(expBase(songCount), r1, r2)])

NextExp == CalculateBaseExp

SpecExp == InitExp /\ [][NextExp]_vars

\* C37: the base EXP does not decrease as the pool grows and is at most
\* 2000, and the value of calculateBaseExp is within 5% of the base EXP.
C37_BaseExpBounded ==
    LET base == expBase(songCount) IN
    /\ \A k \in 0..MaxSongSteps :
          k * 500 <= songCount => expBase(k * 500) <= base
    /\ base <= 2000 * 100
    /\ baseExpReward # 0 =>
          /\ 100 * (baseExpReward - base) <= 5 * base
          /\ 100 * (base - baseExpReward) <= 5 * base

\* a pool above the midpoint of the curve whose round got more than the base
C37_Witness ==
    /\ songCount > 1500
    /\ baseExpReward > expBase(songCount)
    /\ expBase(songCount) > expBase(0)

\* C38: the endSession of a session removes only that session from the
\* registry: a session registered for the guild while the endSession of an
\* older one is suspended stays registered when that endSession goes on.
C38_EndSessionRemovesOnlyItself ==
    [][(gameSessions # NoSession /\ gameSessions' = NoSession
           /\ nCommands' = nCommands)
          => sessions[gameSessions].finished]_vars

\* C39: roundsPlayed is never negative and correctGuesses never exceeds
\* roundsPlayed, whatever the order of correct guesses, stream ends, stream
\* errors and the end of the session.
C39_CountersConsistent ==
    /\ roundsPlayed >= 0
    /\ correctGuesses <= roundsPlayed

(* ---------------- the EXP of a player of two ending sessions ---------------- *)

\* the guilds whose sessions end, and the EXP a session gives the player
Guilds == {1, 2}
ExpGains == {5, 15}

\* CUM_EXP_TABLE[level]: the EXP a player needs for a level
CUM_EXP_TABLE(level) == 10 * (level - 1)

\* the level-up loop of incrementPlayerExp
RECURSIVE LevelFor(_, _)
LevelFor(newExp, newLevel) ==
    IF newExp > CUM_EXP_TABLE(newLevel + 1) THEN LevelFor(newExp, newLevel + 1)
    ELSE newLevel

\* a player with some EXP, and a session in each guild that is about to end
\* with an EXP gain for this player
InitCommit ==
    /\ InitCommon("classic", StartLives, {"A"})
    /\ owner = "A"
    /\ voiceMembers = {"A"}
    /\ playerIDs = <<>>
    /\ music = FALSE
    /\ correctGuessers = <<>>
    /\ multiGuess = TRUE
    /\ songCount = 0
    /\ \E e \in {0, 7, 14} :
         /\ playerStats = [exp |-> e, level |-> LevelFor(e, 1)]
         /\ statsBefore = playerStats
    /\ poolSize = PoolSize
    /\ faults = {}
    /\ multipleChoice = FALSE
    /\ guessTimeoutSet = FALSE
    /\ seekBeginning = TRUE
    /\ durationSet = FALSE

\* GameSession.endSession of guild g commits the player: incrementPlayerExp
\* is called with the EXP gain and awaits the select of exp and level
ExpCommitCall(g, gain) ==
    /\ Len(expCommits) = g - 1
    /\ Set([Cur EXCEPT !.expCommits =
              Append(@, [pc |-> "select", gain |-> gain, exp |-> 0, level |-> 0])])

\* the select answers with the row as it is now
ExpCommitSelect(g) ==
    /\ g \in DOMAIN expCommits
    /\ expCommits[g].pc = "select"
    /\ Set([Cur EXCEPT !.expCommits[g] =
              [@ EXCEPT !.pc = "update", !.exp = playerStats.exp,
                        !.level = playerStats.level]])

\* newExp and newLevel are computed from what was read, and the update
\* writes them
ExpCommitUpdate(g) ==
    /\ g \in DOMAIN expCommits
    /\ expCommits[g].pc = "update"
    /\ LET c == expCommits[g]
           newExp == c.exp + c.gain
       IN Set([Cur EXCEPT !.playerStats = [exp |-> newExp,
                                           level |-> LevelFor(newExp, c.level)],
                          !.expCommits[g].pc = "done"])

NextCommit ==
    \/ \E g \in Guilds : \E gain \in ExpGains : ExpCommitCall(g, gain)
    \/ \E g \in Guilds : ExpCommitSelect(g)
    \/ \E g \in Guilds : ExpCommitUpdate(g)

SpecCommit == InitCommit /\ [][NextCommit]_vars

\* C40: when the sessions of two guilds have both committed the EXP of the
\* same player, the stored exp is the previous exp plus both gains, the
\* stored level is the level of that total, and the level never goes down.
C40_NoLostExp ==
    /\ (Len(expCommits) = 2 /\ \A g \in Guilds : expCommits[g].pc = "done") =>
          /\ playerStats.exp = statsBefore.exp + expCommits[1].gain + expCommits[2].gain
          /\ playerStats.level = LevelFor(playerStats.exp, 1)
    /\ playerStats.level >= statsBefore.level

====
